---- MODULE Spec2Model ----
(***************************************************************************)
(* A model of the configuration integrity logic of G2ConfigTool.py: the    *)
(* in-memory configuration document (self.cfgData['G2_CONFIG'], one        *)
(* ordered list of rows per table) and the command handlers (do_add...,    *)
(* do_delete..., do_set...) that edit it.                                  *)
(*                                                                         *)
(* Every handler is an operator  do_X(cfg, parmData)  that returns         *)
(* [cfg, upd, msg]: the document after the command, whether the handler    *)
(* executed  self.configUpdated = True, and the message it printed.  An    *)
(* action applies one handler to the current document.                     *)
(*                                                                         *)
(* Conventions.  A key that is absent from the JSON argument is the empty  *)
(* string (or hasID = FALSE for "ID"); Python's None in a stored field is  *)
(* the empty string as well.  Rows carry the fields the handlers read or   *)
(* compare; descriptive fields that are copied verbatim (..._DESC,         *)
(* DISPLAY_DELIM, FUNC_LIB, ...) are left out.  The handlers from          *)
(* do_addFeatureComparisonElement on call the argument check under the     *)
(* name argCheck while the file defines it as xargCheck (line 4996); the   *)
(* model takes that helper, which returns True for every non-empty         *)
(* argument, and only non-empty, well-formed JSON arguments are drawn.     *)
(***************************************************************************)
EXTENDS Integers, Sequences, FiniteSets, TLC

VARIABLES cfgData, configUpdated, last, nCmds, files, scanState, defaultConfig

vars == <<cfgData, configUpdated, last, nCmds, files, scanState, defaultConfig>>

(***************************************************************************)
(* Bounds of the model.                                                    *)
(***************************************************************************)
\* number of commands issued in one session
MaxCmds == 3

(***************************************************************************)
(* Program constants.                                                      *)
(***************************************************************************)
\* first ID given to a user-added row (IDs below it are shipped rows)
Seed == 1000
\* the same for CFG_ATTR
AttrSeed == 2000
\* the sentinel stored in FTYPE_ID / FELEM_ID of a call that does not use it
NotApplicable == -1

attributeClassList == {"NAME", "ATTRIBUTE", "IDENTIFIER", "ADDRESS", "PHONE", "RELATIONSHIP", "OTHER"}

lockedFeatureList_short == {"NAME", "ADDRESS", "PHONE", "REL_LINK", "REL_ANCHOR", "REL_POINTER"}

lockedFeatureList == {"NAME", "ADDRESS", "PHONE", "DOB", "REL_LINK", "REL_ANCHOR", "REL_POINTER"}

\* the pseudo elements do_addAttribute accepts without a CFG_FELEM row
specialElements_none == {}

specialElements == {"<PREHASHED>", "USED_FROM_DT", "USED_THRU_DT", "USAGE_TYPE"}

(***************************************************************************)
(* str.upper() on the spellings the sessions type: a code typed in lower   *)
(* case maps to its upper-case form, any other string is unchanged.        *)
(***************************************************************************)
lowerCase == ("ssn" :> "SSN") @@ ("id_num" :> "ID_NUM") @@ ("test_id" :> "TEST_ID")
             @@ ("Yes" :> "YES") @@ ("No" :> "NO") @@ ("parent" :> "PARENT")
             @@ ("exact_comp" :> "EXACT_COMP") @@ ("email_key" :> "EMAIL_KEY")
             @@ ("on" :> "ON") @@ ("off" :> "OFF") @@ ("y" :> "Y") @@ ("n" :> "N")
             @@ ("yes" :> "YES") @@ ("no" :> "NO")

upper(s) == IF s \in DOMAIN lowerCase THEN lowerCase[s] ELSE s

(***************************************************************************)
(* RecordStore primitives.                                                 *)
(***************************************************************************)
\* Python's None as a lookup result
None == [NONE |-> TRUE]

\* index of the first row whose field equals value, 0 when there is none
firstIndex(rows, field, value) ==
    IF \E i \in 1..Len(rows) : rows[i][field] = value
    THEN CHOOSE i \in 1..Len(rows) :
            /\ rows[i][field] = value
            /\ \A j \in 1..(i - 1) : rows[j][field] # value
    ELSE 0

getRecord(cfg, table, field, value) ==
    LET i == firstIndex(cfg[table], field, value)
    IN IF i = 0 THEN None ELSE cfg[table][i]

\* getRecord with a list of fields and a list of values
getRecord2(cfg, table, f1, v1, f2, v2) ==
    LET rows == cfg[table]
        hit(i) == rows[i][f1] = v1 /\ rows[i][f2] = v2
    IN IF \E i \in 1..Len(rows) : hit(i)
       THEN rows[CHOOSE i \in 1..Len(rows) : hit(i) /\ \A j \in 1..(i - 1) : ~hit(j)]
       ELSE None

\* maxID = 0; for each row: if row[field] > maxID: maxID = row[field]
RECURSIVE maxOfFrom(_, _, _, _)
maxOfFrom(rows, field, i, acc) ==
    IF i > Len(rows) THEN acc
    ELSE maxOfFrom(rows, field, i + 1, IF rows[i][field] > acc THEN rows[i][field] ELSE acc)

maxOf(rows, field) == maxOfFrom(rows, field, 1, 0)

\* ... = maxID + 1 if maxID >= seed else seed
nextID_plusOne(maxID, seed) == IF maxID >= seed THEN maxID + 1 ELSE seed + 1

nextID(maxID, seed) == IF maxID >= seed THEN maxID + 1 ELSE seed

\* for i in range(len(rows) - 1, -1, -1): if rows[i][field] == value: del rows[i]
deleteRows(rows, field, value) == SelectSeq(rows, LAMBDA r : r[field] # value)

\* the result of a handler
R(cfg, upd, msg) == [cfg |-> cfg, upd |-> upd, msg |-> msg]

\* the result of a handler that prints one message per field it looks at: msg is the last of
\* them, "" when it printed none
RP(cfg, upd, printed) ==
    [cfg |-> cfg, upd |-> upd, msg |-> IF printed = <<>> THEN "" ELSE printed[Len(printed)],
     printed |-> printed]

\* listID = -1; for i in range(len(rows)): if rows[i][field] == value: listID = i
\* (the last row with the value; 0 when there is none)
lastIndex(rows, field, value) ==
    IF \E i \in 1..Len(rows) : rows[i][field] = value
    THEN CHOOSE i \in 1..Len(rows) :
            /\ rows[i][field] = value
            /\ \A j \in (i + 1)..Len(rows) : rows[j][field] # value
    ELSE 0

(***************************************************************************)
(* parseFeatureBehavior.  A behavior code is a sequence of characters.     *)
(***************************************************************************)
Chars(s) == {s[i] : i \in 1..Len(s)}

Without(s, c) == SelectSeq(s, LAMBDA x : x # c)

BehaviorNAME == <<"N", "A", "M", "E">>
BehaviorNONE == <<"N", "O", "N", "E">>
Frequencies == {<<"A", "1">>, <<"F", "1">>, <<"F", "F">>, <<"F", "M">>, <<"F", "V", "M">>,
                BehaviorNONE, BehaviorNAME}

\* returns None for an invalid code
parseFeatureBehavior(behaviorCode) ==
    LET special == behaviorCode \in {BehaviorNAME, BehaviorNONE}
        excl == ~special /\ "E" \in Chars(behaviorCode)
        c1 == IF excl THEN Without(behaviorCode, "E") ELSE behaviorCode
        stab == ~special /\ "S" \in Chars(c1)
        c2 == IF stab THEN Without(c1, "S") ELSE c1
    IN IF c2 \in Frequencies
       THEN [EXCLUSIVITY |-> IF excl THEN "Yes" ELSE "No",
             STABILITY |-> IF stab THEN "Yes" ELSE "No",
             FREQUENCY |-> c2]
       ELSE None

(***************************************************************************)
(* do_deleteFeature                                                        *)
(***************************************************************************)
\* the nested loops that delete the calls of a feature and the BOM rows of
\* each of these calls
deleteCallsAndBoms_allBoms(cfg, callTable, bomTable, idField, ftypeID) ==
    [cfg EXCEPT ![bomTable] = <<>>, ![callTable] = deleteRows(cfg[callTable], "FTYPE_ID", ftypeID)]

deleteCallsAndBoms(cfg, callTable, bomTable, idField, ftypeID) ==
    LET calls == cfg[callTable]
        owned == {calls[i][idField] : i \in {j \in 1..Len(calls) : calls[j].FTYPE_ID = ftypeID}}
    IN [cfg EXCEPT ![bomTable] = SelectSeq(cfg[bomTable], LAMBDA r : r[idField] \notin owned),
                   ![callTable] = deleteRows(calls, "FTYPE_ID", ftypeID)]

\* the body of the loop over CFG_FTYPE for the row at index i
deleteFeatureCascade_keepsAttr(cfg, i) ==
    LET ftype == cfg.CFG_FTYPE[i]
        id == ftype.FTYPE_ID
        c1 == [cfg EXCEPT !.CFG_SFCALL = deleteRows(cfg.CFG_SFCALL, "FTYPE_ID", id)]
        c2 == deleteCallsAndBoms(c1, "CFG_DFCALL", "CFG_DFBOM", "DFCALL_ID", id)
        c3 == deleteCallsAndBoms(c2, "CFG_EFCALL", "CFG_EFBOM", "EFCALL_ID", id)
        c4 == [c3 EXCEPT !.CFG_EFBOM = deleteRows(c3.CFG_EFBOM, "FTYPE_ID", id)]
        c5 == deleteCallsAndBoms(c4, "CFG_CFCALL", "CFG_CFBOM", "CFCALL_ID", id)
        c6 == [c5 EXCEPT !.CFG_FBOM = deleteRows(c5.CFG_FBOM, "FTYPE_ID", id)]
        c7 == [c6 EXCEPT !.CFG_EBOM = deleteRows(c6.CFG_EBOM, "FTYPE_ID", id)]
    IN [c7 EXCEPT !.CFG_FTYPE = SubSeq(c7.CFG_FTYPE, 1, i - 1)
                                  \o SubSeq(c7.CFG_FTYPE, i + 1, Len(c7.CFG_FTYPE))]

deleteFeatureCascade(cfg, i) ==
    LET ftype == cfg.CFG_FTYPE[i]
        id == ftype.FTYPE_ID
        c1 == [cfg EXCEPT !.CFG_SFCALL = deleteRows(cfg.CFG_SFCALL, "FTYPE_ID", id)]
        c2 == deleteCallsAndBoms(c1, "CFG_DFCALL", "CFG_DFBOM", "DFCALL_ID", id)
        c3 == deleteCallsAndBoms(c2, "CFG_EFCALL", "CFG_EFBOM", "EFCALL_ID", id)
        c4 == [c3 EXCEPT !.CFG_EFBOM = deleteRows(c3.CFG_EFBOM, "FTYPE_ID", id)]
        c5 == deleteCallsAndBoms(c4, "CFG_CFCALL", "CFG_CFBOM", "CFCALL_ID", id)
        c6 == [c5 EXCEPT !.CFG_FBOM = deleteRows(c5.CFG_FBOM, "FTYPE_ID", id)]
        c7 == [c6 EXCEPT !.CFG_EBOM = deleteRows(c6.CFG_EBOM, "FTYPE_ID", id)]
        c8 == [c7 EXCEPT !.CFG_ATTR = deleteRows(c7.CFG_ATTR, "FTYPE_CODE", ftype.FTYPE_CODE)]
    IN [c8 EXCEPT !.CFG_FTYPE = SubSeq(c8.CFG_FTYPE, 1, i - 1)
                                  \o SubSeq(c8.CFG_FTYPE, i + 1, Len(c8.CFG_FTYPE))]

\* for i in range(len(CFG_FTYPE) - 1, -1, -1): if the code matches: cascade, deleteCnt += 1
RECURSIVE deleteFeatureLoop(_, _, _, _)
deleteFeatureLoop(cfg, feature, i, deleteCnt) ==
    IF i = 0 THEN [cfg |-> cfg, deleteCnt |-> deleteCnt]
    ELSE IF cfg.CFG_FTYPE[i].FTYPE_CODE = feature
         THEN deleteFeatureLoop(deleteFeatureCascade(cfg, i), feature, i - 1, deleteCnt + 1)
         ELSE deleteFeatureLoop(cfg, feature, i - 1, deleteCnt)

do_deleteFeature_flagsNotFound(cfg, arg) ==
    LET feature == upper(arg) IN
    IF feature \in lockedFeatureList
    THEN R(cfg, FALSE, "is a locked feature")
    ELSE R(deleteFeatureLoop(cfg, feature, Len(cfg.CFG_FTYPE), 0).cfg, TRUE, "Successfully deleted!")

do_deleteFeature(cfg, arg) ==
    LET feature == upper(arg) IN
    IF feature \in lockedFeatureList
    THEN R(cfg, FALSE, "is a locked feature")
    ELSE LET r == deleteFeatureLoop(cfg, feature, Len(cfg.CFG_FTYPE), 0)
         IN IF r.deleteCnt = 0
            THEN R(r.cfg, FALSE, "Feature not found")
            ELSE R(r.cfg, TRUE, "Successfully deleted!")

(***************************************************************************)
(* do_addFeature                                                           *)
(***************************************************************************)
\* the loop over ELEMENTLIST: element k of elems, with fbomOrder = k; an entry that is
\* a JSON object with no "element" key ends the handler at elementRecord['ELEMENT'] with
\* a KeyError, after the rows written so far
RECURSIVE addFeatureElements(_, _, _, _, _, _)
addFeatureElements(cfg, elems, k, ftypeID, efcallID, cfcallID) ==
    IF k > Len(elems) THEN [cfg |-> cfg, ok |-> TRUE]
    ELSE IF "ELEMENT" \notin DOMAIN elems[k] THEN [cfg |-> cfg, ok |-> FALSE]
    ELSE
    LET elementRecord == [elems[k] EXCEPT !.ELEMENT = upper(@)]
        felems == cfg.CFG_FELEM
        idx == firstIndex(felems, "FELEM_CODE", elementRecord.ELEMENT)
        found == IF idx = 0 THEN 0 ELSE felems[idx].FELEM_ID
        \* the lookup loop breaks at the first row with the code
        maxID == maxOf(IF idx = 0 THEN felems ELSE SubSeq(felems, 1, idx - 1), "FELEM_ID")
        felemID == IF found = 0 THEN nextID(maxID, Seed) ELSE found
        c1 == IF found = 0
              THEN [cfg EXCEPT !.CFG_FELEM = Append(@, [FELEM_ID |-> felemID,
                                                        FELEM_CODE |-> elementRecord.ELEMENT,
                                                        DATA_TYPE |-> "string",
                                                        TOKENIZE |-> "No"])]
              ELSE cfg
        c2 == IF efcallID > 0 /\ upper(elementRecord.EXPRESSED) = "YES"
              THEN [c1 EXCEPT !.CFG_EFBOM = Append(@, [EFCALL_ID |-> efcallID, EXEC_ORDER |-> k,
                                                       FTYPE_ID |-> ftypeID, FELEM_ID |-> felemID])]
              ELSE c1
        c3 == IF cfcallID > 0 /\ upper(elementRecord.COMPARED) = "YES"
              THEN [c2 EXCEPT !.CFG_CFBOM = Append(@, [CFCALL_ID |-> cfcallID, EXEC_ORDER |-> k,
                                                       FTYPE_ID |-> ftypeID, FELEM_ID |-> felemID])]
              ELSE c2
        c4 == [c3 EXCEPT !.CFG_FBOM = Append(@, [FTYPE_ID |-> ftypeID, FELEM_ID |-> felemID,
                                                 EXEC_ORDER |-> k])]
    IN addFeatureElements(c4, elems, k + 1, ftypeID, efcallID, cfcallID)

\* the first row of rows that makes the add loop return: its code is the new code, or
\* an ID is given and its ID is that ID; 0 when the loop runs to its end
firstClash_anyID(rows, codeField, code, idField, hasID, id) ==
    IF \E i \in 1..Len(rows) : rows[i][codeField] = code \/ hasID THEN 1 ELSE 0

firstClash(rows, codeField, code, idField, hasID, id) ==
    LET clash(i) == rows[i][codeField] = code \/ (hasID /\ rows[i][idField] = id)
    IN IF \E i \in 1..Len(rows) : clash(i)
       THEN CHOOSE i \in 1..Len(rows) : clash(i) /\ \A j \in 1..(i - 1) : ~clash(j)
       ELSE 0

\* the function lookup of do_addFeature: 0 when no code is given, -1 when the code is
\* given and has no row
funcID(cfg, table, codeField, idField, code) ==
    IF code = "" THEN 0
    ELSE LET rec == getRecord(cfg, table, codeField, code)
         IN IF rec = None THEN -1 ELSE rec[idField]

do_addFeature(cfg, arg) ==
    LET parmData == [arg EXCEPT !.FEATURE = upper(@), !.CLASS = upper(@), !.STANDARDIZE = upper(@),
                                !.EXPRESSION = upper(@), !.COMPARISON = upper(@)]
        ftypes == cfg.CFG_FTYPE
        clash == firstClash(ftypes, "FTYPE_CODE", parmData.FEATURE, "FTYPE_ID",
                            parmData.hasID, parmData.ID)
        ftypeID == IF parmData.hasID THEN parmData.ID ELSE nextID(maxOf(ftypes, "FTYPE_ID"), Seed)
        class == IF parmData.CLASS = "" THEN "OTHER" ELSE parmData.CLASS
        behavior == IF parmData.BEHAVIOR = <<>> THEN <<"F", "M">> ELSE parmData.BEHAVIOR
        featureBehaviorDict == parseFeatureBehavior(behavior)
        fclassRecord == getRecord(cfg, "CFG_FCLASS", "FCLASS_CODE", class)
        sfuncID == funcID(cfg, "CFG_SFUNC", "SFUNC_CODE", "SFUNC_ID", parmData.STANDARDIZE)
        efuncID == funcID(cfg, "CFG_EFUNC", "EFUNC_CODE", "EFUNC_ID", parmData.EXPRESSION)
        cfuncID == funcID(cfg, "CFG_CFUNC", "CFUNC_CODE", "CFUNC_ID", parmData.COMPARISON)
        elems == parmData.ELEMENTLIST
        expressedCnt == Cardinality({k \in 1..Len(elems) : upper(elems[k].EXPRESSED) = "YES"})
        comparedCnt == Cardinality({k \in 1..Len(elems) : upper(elems[k].COMPARED) = "YES"})
        \* insert the feature
        c1 == [cfg EXCEPT !.CFG_FTYPE = Append(@, [FTYPE_ID |-> ftypeID,
                                                   FTYPE_CODE |-> parmData.FEATURE,
                                                   FCLASS_ID |-> fclassRecord.FCLASS_ID,
                                                   FTYPE_FREQ |-> featureBehaviorDict.FREQUENCY,
                                                   FTYPE_EXCL |-> featureBehaviorDict.EXCLUSIVITY,
                                                   FTYPE_STAB |-> featureBehaviorDict.STABILITY,
                                                   ANONYMIZE |-> "No",
                                                   USED_FOR_CAND |-> IF behavior = <<"F", "M">>
                                                                     THEN "No" ELSE "Yes"])]
        \* add the standardization call
        sfcallID == nextID(maxOf(c1.CFG_SFCALL, "SFCALL_ID"), Seed)
        c2 == IF sfuncID > 0
              THEN [c1 EXCEPT !.CFG_SFCALL = Append(@, [SFCALL_ID |-> sfcallID, SFUNC_ID |-> sfuncID,
                                                        EXEC_ORDER |-> 1, FTYPE_ID |-> ftypeID,
                                                        FELEM_ID |-> NotApplicable])]
              ELSE c1
        \* add the expression call
        efcallID == IF efuncID > 0 THEN nextID(maxOf(c2.CFG_EFCALL, "EFCALL_ID"), Seed) ELSE 0
        c3 == IF efuncID > 0
              THEN [c2 EXCEPT !.CFG_EFCALL = Append(@, [EFCALL_ID |-> efcallID, EFUNC_ID |-> efuncID,
                                                        EXEC_ORDER |-> 1, FTYPE_ID |-> ftypeID,
                                                        FELEM_ID |-> NotApplicable,
                                                        EFEAT_FTYPE_ID |-> NotApplicable])]
              ELSE c2
        \* add the comparison call
        cfcallID == IF cfuncID > 0 THEN nextID(maxOf(c3.CFG_CFCALL, "CFCALL_ID"), Seed) ELSE 0
        c4 == IF cfuncID > 0
              THEN [c3 EXCEPT !.CFG_CFCALL = Append(@, [CFCALL_ID |-> cfcallID, CFUNC_ID |-> cfuncID,
                                                        EXEC_ORDER |-> 1, FTYPE_ID |-> ftypeID])]
              ELSE c3
    IN IF Len(elems) = 0 THEN R(cfg, FALSE, "Invalid parameter")
       ELSE IF clash # 0
       THEN IF ftypes[clash].FTYPE_CODE = parmData.FEATURE
            THEN R(cfg, FALSE, "Feature already exists!")
            ELSE R(cfg, FALSE, "Feature id already exists!")
       ELSE IF featureBehaviorDict = None THEN R(cfg, FALSE, "is not a valid behavior")
       ELSE IF fclassRecord = None THEN R(cfg, FALSE, "is not a valid feature class")
       ELSE IF sfuncID = -1 THEN R(cfg, FALSE, "is not a valid standardization function")
       ELSE IF efuncID = -1 THEN R(cfg, FALSE, "is not a valid expression function")
       ELSE IF cfuncID = -1 THEN R(cfg, FALSE, "is not a valid comparison function")
       ELSE IF efuncID > 0 /\ expressedCnt = 0 THEN R(cfg, FALSE, "No elements marked expressed")
       ELSE IF cfuncID > 0 /\ comparedCnt = 0 THEN R(cfg, FALSE, "No elements marked compared")
       ELSE LET r == addFeatureElements(c4, elems, 1, ftypeID, efcallID, cfcallID)
            IN IF r.ok THEN R(r.cfg, TRUE, "Successfully added!")
               ELSE R(r.cfg, FALSE, "KeyError")

(***************************************************************************)
(* do_addToNamehash                                                        *)
(***************************************************************************)
\* the first CFG_EFCALL row of the function NAME_HASHER; 0 when there is none
nameHasherCall(cfg) ==
    LET efuncRecord == getRecord(cfg, "CFG_EFUNC", "EFUNC_CODE", "NAME_HASHER")
        efcallRecord == getRecord(cfg, "CFG_EFCALL", "EFUNC_ID", efuncRecord.EFUNC_ID)
    IN IF efuncRecord = None \/ efcallRecord = None THEN 0 ELSE efcallRecord.EFCALL_ID

do_addToNamehash(cfg, arg) ==
    LET parmData == [arg EXCEPT !.FEATURE = upper(@), !.ELEMENT = upper(@)]
        nameHasher_efcallID == nameHasherCall(cfg)
        ftypeRecord == getRecord(cfg, "CFG_FTYPE", "FTYPE_CODE", parmData.FEATURE)
        ftypeID == IF parmData.FEATURE # "" THEN ftypeRecord.FTYPE_ID ELSE NotApplicable
        felemRecord == getRecord(cfg, "CFG_FELEM", "FELEM_CODE", parmData.ELEMENT)
        felemID == felemRecord.FELEM_ID
        boms == cfg.CFG_EFBOM
        mine == SelectSeq(boms, LAMBDA r : r.EFCALL_ID = nameHasher_efcallID)
        nameHasher_execOrder == maxOf(mine, "EXEC_ORDER")
        newRecord == [EFCALL_ID |-> nameHasher_efcallID, EXEC_ORDER |-> nameHasher_execOrder + 1,
                      FTYPE_ID |-> ftypeID, FELEM_ID |-> felemID]
    IN IF nameHasher_efcallID = 0 THEN R(cfg, FALSE, "Name hasher function call not found!")
       ELSE IF parmData.FEATURE # "" /\ ftypeRecord = None THEN R(cfg, FALSE, "Feature not found!")
       ELSE IF parmData.ELEMENT = "" THEN R(cfg, FALSE, "A feature element value is required")
       ELSE IF felemRecord = None THEN R(cfg, FALSE, "Feature element not found!")
       ELSE IF ftypeID # NotApplicable
               /\ getRecord2(cfg, "CFG_FBOM", "FTYPE_ID", ftypeID, "FELEM_ID", felemID) = None
       THEN R(cfg, FALSE, "is not an element of feature")
       ELSE IF \E i \in 1..Len(mine) : mine[i].FTYPE_ID = ftypeID /\ mine[i].FELEM_ID = felemID
       THEN R(cfg, FALSE, "Already added to name hash!")
       ELSE R([cfg EXCEPT !.CFG_EFBOM = Append(@, newRecord)], TRUE, "Successfully added")

(***************************************************************************)
(* do_addAttribute                                                         *)
(***************************************************************************)
do_addAttribute(cfg, arg) ==
    LET parmData == [arg EXCEPT !.ATTRIBUTE = upper(@), !.CLASS = upper(@), !.FEATURE = upper(@),
                                !.ELEMENT = upper(@)]
        class == IF parmData.CLASS = "" THEN "OTHER" ELSE parmData.CLASS
        ftypeRecord == IF parmData.FEATURE = "" THEN None
                       ELSE getRecord(cfg, "CFG_FTYPE", "FTYPE_CODE", parmData.FEATURE)
        special == parmData.ELEMENT \in specialElements
        felemRecord == IF parmData.ELEMENT = "" \/ special THEN None
                       ELSE getRecord(cfg, "CFG_FELEM", "FELEM_CODE", parmData.ELEMENT)
        \* truthiness of the Python variable felemRecord (a row, or the special code itself)
        hasElem == special \/ felemRecord # None
        attrs == cfg.CFG_ATTR
        clash == firstClash(attrs, "ATTR_CODE", parmData.ATTRIBUTE, "ATTR_ID", parmData.hasID, parmData.ID)
        attrID == IF parmData.hasID THEN parmData.ID ELSE nextID(maxOf(attrs, "ATTR_ID"), AttrSeed)
        newRecord == [ATTR_ID |-> attrID, ATTR_CODE |-> parmData.ATTRIBUTE, ATTR_CLASS |-> class,
                      FTYPE_CODE |-> parmData.FEATURE, FELEM_CODE |-> parmData.ELEMENT,
                      \* the request holds no "advanced" and no "internal" key
                      ADVANCED |-> "No", INTERNAL |-> "No"]
    IN IF class \notin attributeClassList THEN R(cfg, FALSE, "Invalid attribute class")
       ELSE IF parmData.FEATURE # "" /\ ftypeRecord = None THEN R(cfg, FALSE, "Invalid feature")
       ELSE IF parmData.ELEMENT # "" /\ ~special /\ felemRecord = None THEN R(cfg, FALSE, "Invalid element")
       \* ftypeRecord['FTYPE_ID'] with ftypeRecord = None
       ELSE IF felemRecord # None /\ ftypeRecord = None THEN R(cfg, FALSE, "TypeError")
       ELSE IF felemRecord # None
               /\ getRecord2(cfg, "CFG_FBOM", "FTYPE_ID", ftypeRecord.FTYPE_ID,
                             "FELEM_ID", felemRecord.FELEM_ID) = None
       THEN R(cfg, FALSE, "is not an element of feature")
       ELSE IF (ftypeRecord # None) # hasElem
       THEN R(cfg, FALSE, "Must have both a feature and an element if either are supplied")
       ELSE IF clash # 0
       THEN IF attrs[clash].ATTR_CODE = parmData.ATTRIBUTE
            THEN R(cfg, FALSE, "Attribute already exists!")
            ELSE R(cfg, FALSE, "Attribute ID already exists!")
       ELSE R([cfg EXCEPT !.CFG_ATTR = Append(@, newRecord)], TRUE, "Successfully added!")

(***************************************************************************)
(* do_addStandardizeCall                                                   *)
(***************************************************************************)
do_addStandardizeCall_acceptsBoth(cfg, arg) ==
    LET parmData == [arg EXCEPT !.FEATURE = upper(@), !.ELEMENT = upper(@), !.FUNCTION = upper(@)]
        featureIsSpecified == parmData.FEATURE # ""
        ftypeRecord == getRecord(cfg, "CFG_FTYPE", "FTYPE_CODE", parmData.FEATURE)
        ftypeID == IF featureIsSpecified THEN ftypeRecord.FTYPE_ID ELSE NotApplicable
        elementIsSpecified == parmData.ELEMENT # ""
        felemRecord == getRecord(cfg, "CFG_FELEM", "FELEM_CODE", parmData.ELEMENT)
        felemID == IF elementIsSpecified THEN felemRecord.FELEM_ID ELSE NotApplicable
        sfuncRecord == getRecord(cfg, "CFG_SFUNC", "SFUNC_CODE", parmData.FUNCTION)
        calls == cfg.CFG_SFCALL
        sfcallID == IF parmData.hasID THEN parmData.ID ELSE nextID(maxOf(calls, "SFCALL_ID"), Seed)
        newRecord == [SFCALL_ID |-> sfcallID, SFUNC_ID |-> sfuncRecord.SFUNC_ID,
                      EXEC_ORDER |-> parmData.EXECORDER, FTYPE_ID |-> ftypeID, FELEM_ID |-> felemID]
    IN IF featureIsSpecified /\ ftypeRecord = None THEN R(cfg, FALSE, "Invalid feature")
       ELSE IF elementIsSpecified /\ felemRecord = None THEN R(cfg, FALSE, "Invalid element")
       ELSE IF ~featureIsSpecified /\ ~elementIsSpecified THEN R(cfg, FALSE, "No feature or element specified.")
       ELSE IF parmData.FUNCTION = "" THEN R(cfg, FALSE, "Function not specified.")
       ELSE IF sfuncRecord = None THEN R(cfg, FALSE, "Invalid function")
       ELSE IF ~parmData.hasExecOrder THEN R(cfg, FALSE, "Exec order not specified.")
       \* max(maxID) of an empty list
       ELSE IF ~parmData.hasID /\ Len(calls) = 0 THEN R(cfg, FALSE, "ValueError")
       ELSE R([cfg EXCEPT !.CFG_SFCALL = Append(@, newRecord)], TRUE, "Successfully added!")

do_addStandardizeCall(cfg, arg) ==
    LET parmData == [arg EXCEPT !.FEATURE = upper(@), !.ELEMENT = upper(@), !.FUNCTION = upper(@)]
        featureIsSpecified == parmData.FEATURE # ""
        ftypeRecord == getRecord(cfg, "CFG_FTYPE", "FTYPE_CODE", parmData.FEATURE)
        ftypeID == IF featureIsSpecified THEN ftypeRecord.FTYPE_ID ELSE NotApplicable
        elementIsSpecified == parmData.ELEMENT # ""
        felemRecord == getRecord(cfg, "CFG_FELEM", "FELEM_CODE", parmData.ELEMENT)
        felemID == IF elementIsSpecified THEN felemRecord.FELEM_ID ELSE NotApplicable
        sfuncRecord == getRecord(cfg, "CFG_SFUNC", "SFUNC_CODE", parmData.FUNCTION)
        calls == cfg.CFG_SFCALL
        sfcallID == IF parmData.hasID THEN parmData.ID ELSE nextID(maxOf(calls, "SFCALL_ID"), Seed)
        newRecord == [SFCALL_ID |-> sfcallID, SFUNC_ID |-> sfuncRecord.SFUNC_ID,
                      EXEC_ORDER |-> parmData.EXECORDER, FTYPE_ID |-> ftypeID, FELEM_ID |-> felemID]
    IN IF featureIsSpecified /\ ftypeRecord = None THEN R(cfg, FALSE, "Invalid feature")
       ELSE IF elementIsSpecified /\ felemRecord = None THEN R(cfg, FALSE, "Invalid element")
       ELSE IF ~featureIsSpecified /\ ~elementIsSpecified THEN R(cfg, FALSE, "No feature or element specified.")
       ELSE IF featureIsSpecified /\ elementIsSpecified THEN R(cfg, FALSE, "Both feature and element specified.")
       ELSE IF parmData.FUNCTION = "" THEN R(cfg, FALSE, "Function not specified.")
       ELSE IF sfuncRecord = None THEN R(cfg, FALSE, "Invalid function")
       ELSE IF ~parmData.hasExecOrder THEN R(cfg, FALSE, "Exec order not specified.")
       \* max(maxID) of an empty list
       ELSE IF ~parmData.hasID /\ Len(calls) = 0 THEN R(cfg, FALSE, "ValueError")
       ELSE R([cfg EXCEPT !.CFG_SFCALL = Append(@, newRecord)], TRUE, "Successfully added!")

(***************************************************************************)
(* do_addExpressionCall                                                    *)
(***************************************************************************)
\* the first loop over ELEMENTLIST: "" when every entry is valid, else the message
RECURSIVE checkExpressionElements(_, _, _)
checkExpressionElements(cfg, elems, k) ==
    IF k > Len(elems) THEN ""
    ELSE LET elementRecord == [elems[k] EXCEPT !.FEATURE = upper(@), !.ELEMENT = upper(@),
                                               !.FEATURELINK = upper(@)]
         IN IF elementRecord.FEATURE # ""
               /\ getRecord(cfg, "CFG_FTYPE", "FTYPE_CODE", elementRecord.FEATURE) = None
            THEN "Invalid BOM feature"
            ELSE IF elementRecord.ELEMENT # ""
                    /\ getRecord(cfg, "CFG_FELEM", "FELEM_CODE", elementRecord.ELEMENT) = None
            THEN "Invalid BOM element"
            ELSE IF elementRecord.ELEMENT = "" THEN "No BOM element specified on BOM entry."
            ELSE IF elementRecord.FEATURELINK \notin {"", "PARENT"} THEN "Invalid feature link value"
            ELSE IF elementRecord.FEATURE # "" /\ elementRecord.FEATURELINK # ""
            THEN "Cannot specify both ftype and feature-link on single function BOM entry."
            ELSE checkExpressionElements(cfg, elems, k + 1)

\* the second loop over ELEMENTLIST, which appends the CFG_EFBOM rows; it looks the codes
\* up as they were typed (upper() was applied to the first loop's copy of the entry), and
\* a lookup that finds nothing ends the handler with a TypeError after the rows so far
RECURSIVE addExpressionElements(_, _, _, _)
addExpressionElements(cfg, elems, k, efcallID) ==
    IF k > Len(elems) THEN [cfg |-> cfg, ok |-> TRUE]
    ELSE LET elementRecord == elems[k]
             bomFTypeRecord == getRecord(cfg, "CFG_FTYPE", "FTYPE_CODE", elementRecord.FEATURE)
             bomFElemRecord == getRecord(cfg, "CFG_FELEM", "FELEM_CODE", elementRecord.ELEMENT)
             bomFTypeID == IF elementRecord.FEATURELINK # "" THEN 0
                           ELSE IF elementRecord.FEATURE # "" THEN bomFTypeRecord.FTYPE_ID
                           ELSE NotApplicable
             newRecord == [EFCALL_ID |-> efcallID, EXEC_ORDER |-> k, FTYPE_ID |-> bomFTypeID,
                           FELEM_ID |-> bomFElemRecord.FELEM_ID]
         IN IF (elementRecord.FEATURE # "" /\ bomFTypeRecord = None) \/ bomFElemRecord = None
            THEN [cfg |-> cfg, ok |-> FALSE]
            ELSE addExpressionElements([cfg EXCEPT !.CFG_EFBOM = Append(@, newRecord)],
                                       elems, k + 1, efcallID)

\* the scan of CFG_EFCALL: TRUE when a row has the requested ID (0 when none is given) or
\* the same FTYPE_ID and EXEC_ORDER
expressionCallExists(calls, efcallID, ftypeID, execOrder) ==
    \E i \in 1..Len(calls) :
        \/ calls[i].EFCALL_ID = efcallID
        \/ (calls[i].FTYPE_ID = ftypeID /\ calls[i].EXEC_ORDER = execOrder)

do_addExpressionCall(cfg, arg) ==
    LET parmData == [arg EXCEPT !.FEATURE = upper(@), !.ELEMENT = upper(@), !.FUNCTION = upper(@),
                                !.EXPRESSIONFEATURE = upper(@)]
        featureIsSpecified == parmData.FEATURE # ""
        ftypeRecord == getRecord(cfg, "CFG_FTYPE", "FTYPE_CODE", parmData.FEATURE)
        ftypeID == IF featureIsSpecified THEN ftypeRecord.FTYPE_ID ELSE NotApplicable
        elementIsSpecified == parmData.ELEMENT # ""
        felemRecord == getRecord(cfg, "CFG_FELEM", "FELEM_CODE", parmData.ELEMENT)
        felemID == IF elementIsSpecified THEN felemRecord.FELEM_ID ELSE NotApplicable
        efuncRecord == getRecord(cfg, "CFG_EFUNC", "EFUNC_CODE", parmData.FUNCTION)
        calls == cfg.CFG_EFCALL
        efcallID == IF parmData.hasID THEN parmData.ID ELSE nextID(maxOf(calls, "EFCALL_ID"), Seed)
        expressionFTypeRecord == getRecord(cfg, "CFG_FTYPE", "FTYPE_CODE", parmData.EXPRESSIONFEATURE)
        efeatFTypeID == IF parmData.EXPRESSIONFEATURE = "" THEN NotApplicable
                        ELSE expressionFTypeRecord.FTYPE_ID
        elemMsg == checkExpressionElements(cfg, parmData.ELEMENTLIST, 1)
        newRecord == [EFCALL_ID |-> efcallID, EFUNC_ID |-> efuncRecord.EFUNC_ID,
                      EXEC_ORDER |-> parmData.EXECORDER, FTYPE_ID |-> ftypeID, FELEM_ID |-> felemID,
                      EFEAT_FTYPE_ID |-> efeatFTypeID]
        c1 == [cfg EXCEPT !.CFG_EFCALL = Append(@, newRecord)]
        r == addExpressionElements(c1, parmData.ELEMENTLIST, 1, efcallID)
    IN IF Len(parmData.ELEMENTLIST) = 0 THEN R(cfg, FALSE, "Element list is required!")
       ELSE IF featureIsSpecified /\ ftypeRecord = None THEN R(cfg, FALSE, "Invalid feature")
       ELSE IF elementIsSpecified /\ felemRecord = None THEN R(cfg, FALSE, "Invalid element")
       ELSE IF ~featureIsSpecified /\ ~elementIsSpecified THEN R(cfg, FALSE, "No feature or element specified.")
       ELSE IF featureIsSpecified /\ elementIsSpecified THEN R(cfg, FALSE, "Both feature and element specified.")
       ELSE IF parmData.FUNCTION = "" THEN R(cfg, FALSE, "Function not specified.")
       ELSE IF efuncRecord = None THEN R(cfg, FALSE, "Invalid function")
       ELSE IF ~parmData.hasExecOrder THEN R(cfg, FALSE, "An execOrder for the call must be specified.")
       ELSE IF expressionCallExists(calls, IF parmData.hasID THEN parmData.ID ELSE 0, ftypeID,
                                    parmData.EXECORDER)
       THEN R(cfg, FALSE, "The supplied ID or execOrder already exists.")
       ELSE IF ~parmData.hasID /\ Len(calls) = 0 THEN R(cfg, FALSE, "ValueError")
       ELSE IF parmData.EXPRESSIONFEATURE # "" /\ expressionFTypeRecord = None
       THEN R(cfg, FALSE, "Invalid expression feature")
       ELSE IF elemMsg # "" THEN R(cfg, FALSE, elemMsg)
       ELSE IF r.ok THEN R(r.cfg, TRUE, "Successfully added!")
       ELSE R(r.cfg, FALSE, "TypeError")


(***************************************************************************)
(* do_addFeatureComparison, do_addFeatureComparisonElement,                *)
(* do_deleteFeatureComparison, do_deleteFeatureDistinctCall,               *)
(* do_deleteExpressionCall, do_setDistinct                                 *)
(***************************************************************************)
\* the lookup loop of an element code: the FELEM_ID of the first row with the code, else 0
elementID(cfg, code) ==
    LET rec == getRecord(cfg, "CFG_FELEM", "FELEM_CODE", code)
    IN IF rec = None THEN 0 ELSE rec.FELEM_ID

\* the loop that appends one CFG_CFBOM row per entry of ELEMENTLIST
RECURSIVE addComparisonElements(_, _, _, _, _)
addComparisonElements(cfg, elems, k, cfcallID, ftypeID) ==
    IF k > Len(elems) THEN cfg
    ELSE addComparisonElements(
            [cfg EXCEPT !.CFG_CFBOM = Append(@, [CFCALL_ID |-> cfcallID, EXEC_ORDER |-> k,
                                                 FTYPE_ID |-> ftypeID,
                                                 FELEM_ID |-> elementID(cfg, upper(elems[k].ELEMENT))])],
            elems, k + 1, cfcallID, ftypeID)

\* an entry of ELEMENTLIST on which the first loop of do_addFeatureComparison stops
badElement(cfg, element) ==
    "ELEMENT" \notin DOMAIN element \/ elementID(cfg, upper(element.ELEMENT)) = 0

firstBadElement(cfg, elems) ==
    CHOOSE k \in 1..Len(elems) :
        badElement(cfg, elems[k]) /\ \A j \in 1..(k - 1) : ~badElement(cfg, elems[j])

do_addFeatureComparison(cfg, arg) ==
    LET parmData == [arg EXCEPT !.FEATURE = upper(@), !.COMPARISON = upper(@)]
        ftypeRecord == getRecord(cfg, "CFG_FTYPE", "FTYPE_CODE", parmData.FEATURE)
        cfuncRecord == getRecord(cfg, "CFG_CFUNC", "CFUNC_CODE", parmData.COMPARISON)
        elems == parmData.ELEMENTLIST
        cfcallID == nextID(maxOf(cfg.CFG_CFCALL, "CFCALL_ID"), Seed)
        c1 == [cfg EXCEPT !.CFG_CFCALL = Append(@, [CFCALL_ID |-> cfcallID,
                                                    CFUNC_ID |-> cfuncRecord.CFUNC_ID,
                                                    EXEC_ORDER |-> 1,
                                                    FTYPE_ID |-> ftypeRecord.FTYPE_ID])]
    IN IF Len(elems) = 0 THEN R(cfg, FALSE, "Element list is required!")
       ELSE IF ftypeRecord = None THEN R(cfg, FALSE, "Feature not found!")
       ELSE IF parmData.COMPARISON = "" THEN R(cfg, FALSE, "Comparison function not specified!")
       ELSE IF cfuncRecord = None THEN R(cfg, FALSE, "Invalid comparison function code")
       \* the first loop over ELEMENTLIST stops at the first entry it cannot look up: an
       \* entry with no "element" key raises KeyError, an unknown code is refused
       ELSE IF \E k \in 1..Len(elems) : badElement(cfg, elems[k])
       THEN IF "ELEMENT" \in DOMAIN elems[firstBadElement(cfg, elems)]
            THEN R(cfg, FALSE, "Invalid element")
            ELSE R(cfg, FALSE, "KeyError")
       ELSE R(addComparisonElements(c1, elems, 1, cfcallID, ftypeRecord.FTYPE_ID), TRUE,
              "Successfully added!")

\* do_addFeatureComparisonElement (tables CFG_CFCALL, CFG_CFBOM, CFCALL_ID) and
\* do_addFeatureDistinctCallElement (CFG_DFCALL, CFG_DFBOM, DFCALL_ID) are the same code
addCallElement(cfg, arg, callTable, bomTable, idField) ==
    LET parmData == [arg EXCEPT !.FEATURE = upper(@), !.ELEMENT = upper(@)]
        ftypeRecord == getRecord(cfg, "CFG_FTYPE", "FTYPE_CODE", parmData.FEATURE)
        felemRecord == getRecord(cfg, "CFG_FELEM", "FELEM_CODE", parmData.ELEMENT)
        callRecord == getRecord(cfg, callTable, "FTYPE_ID", ftypeRecord.FTYPE_ID)
        callID == callRecord[idField]
        boms == cfg[bomTable]
        mine == SelectSeq(boms, LAMBDA r : r[idField] = callID)
        execOrder == maxOf(mine, "EXEC_ORDER") + 1
        newRecord == IF idField = "CFCALL_ID"
                     THEN [CFCALL_ID |-> callID, EXEC_ORDER |-> execOrder,
                           FTYPE_ID |-> ftypeRecord.FTYPE_ID, FELEM_ID |-> felemRecord.FELEM_ID]
                     ELSE [DFCALL_ID |-> callID, EXEC_ORDER |-> execOrder,
                           FTYPE_ID |-> ftypeRecord.FTYPE_ID, FELEM_ID |-> felemRecord.FELEM_ID]
    IN IF ftypeRecord = None THEN R(cfg, FALSE, "Feature not found!")
       ELSE IF felemRecord = None THEN R(cfg, FALSE, "Element not found!")
       ELSE IF callRecord = None THEN R(cfg, FALSE, "function for feature not found!")
       ELSE IF \E i \in 1..Len(boms) : boms[i][idField] = callID /\ boms[i].FELEM_ID = felemRecord.FELEM_ID
       THEN R(cfg, FALSE, "already contains element")
       ELSE R([cfg EXCEPT ![bomTable] = Append(@, newRecord)], TRUE, "Successfully added!")

do_addFeatureComparisonElement(cfg, arg) == addCallElement(cfg, arg, "CFG_CFCALL", "CFG_CFBOM", "CFCALL_ID")

do_addFeatureDistinctCallElement(cfg, arg) == addCallElement(cfg, arg, "CFG_DFCALL", "CFG_DFBOM", "DFCALL_ID")

\* do_deleteFeatureComparison and do_deleteFeatureDistinctCall are the same code: for every
\* CFG_FTYPE row with the code, the calls of its FTYPE_ID and their BOM rows go
deleteFeatureCalls(cfg, arg, callTable, bomTable, idField) ==
    LET feature == upper(arg)
        ftypeRecord == getRecord(cfg, "CFG_FTYPE", "FTYPE_CODE", feature)
        ids == {cfg.CFG_FTYPE[i].FTYPE_ID : i \in {j \in 1..Len(cfg.CFG_FTYPE) :
                                                      cfg.CFG_FTYPE[j].FTYPE_CODE = feature}}
        calls == cfg[callTable]
        owned == {calls[i][idField] : i \in {j \in 1..Len(calls) : calls[j].FTYPE_ID \in ids}}
        new == [cfg EXCEPT ![bomTable] = SelectSeq(@, LAMBDA r : r[idField] \notin owned),
                           ![callTable] = SelectSeq(@, LAMBDA r : r.FTYPE_ID \notin ids)]
    IN IF ftypeRecord = None THEN R(cfg, FALSE, "Feature not found!")
       ELSE IF owned = {} THEN R(cfg, FALSE, "not found!")
       ELSE R(new, TRUE, "rows deleted!")

do_deleteFeatureComparison(cfg, arg) == deleteFeatureCalls(cfg, arg, "CFG_CFCALL", "CFG_CFBOM", "CFCALL_ID")

do_deleteFeatureDistinctCall(cfg, arg) == deleteFeatureCalls(cfg, arg, "CFG_DFCALL", "CFG_DFBOM", "DFCALL_ID")

\* arg is the EFCALL_ID
do_deleteExpressionCall_callOnly(cfg, arg) ==
    IF \A i \in 1..Len(cfg.CFG_EFCALL) : cfg.CFG_EFCALL[i].EFCALL_ID # arg
    THEN R(cfg, FALSE, "Record not found!")
    ELSE R([cfg EXCEPT !.CFG_EFCALL = deleteRows(@, "EFCALL_ID", arg)], TRUE, "rows deleted!")

do_deleteExpressionCall(cfg, arg) ==
    IF \A i \in 1..Len(cfg.CFG_EFCALL) : cfg.CFG_EFCALL[i].EFCALL_ID # arg
    THEN R(cfg, FALSE, "Record not found!")
    ELSE R([cfg EXCEPT !.CFG_EFCALL = deleteRows(@, "EFCALL_ID", arg),
                       !.CFG_EFBOM = deleteRows(@, "EFCALL_ID", arg)], TRUE, "rows deleted!")

\* arg is "ON" or "OFF" in any case; the backup keys XXX_DFCALL and XXX_DFBOM are cfg.XXX
do_setDistinct(cfg, arg) ==
    LET newSetting == upper(arg)
    IN IF newSetting \notin {"ON", "OFF"} THEN R(cfg, FALSE, "invalid distinct setting")
       ELSE IF Len(cfg.CFG_DFCALL) = 0 /\ newSetting = "OFF" THEN R(cfg, FALSE, "distinct is already off!")
       ELSE IF Len(cfg.CFG_DFCALL) # 0 /\ newSetting = "ON" THEN R(cfg, FALSE, "distinct is already on!")
       ELSE IF newSetting = "OFF"
       THEN R([cfg EXCEPT !.XXX = <<[DFCALL |-> cfg.CFG_DFCALL, DFBOM |-> cfg.CFG_DFBOM]>>,
                          !.CFG_DFCALL = <<>>, !.CFG_DFBOM = <<>>], TRUE, "distinct is now OFF!")
       ELSE IF cfg.XXX = <<>> THEN R(cfg, FALSE, "distinct settings cannot be restored")
       ELSE R([cfg EXCEPT !.CFG_DFCALL = cfg.XXX[1].DFCALL, !.CFG_DFBOM = cfg.XXX[1].DFBOM,
                          !.XXX = <<>>], TRUE, "distinct is now ON!")


(***************************************************************************)
(* do_addDataSource, do_deleteDataSource                                   *)
(***************************************************************************)
\* the plain form "addDataSource CUSTOMER" is the parm with hasID = FALSE
do_addDataSource(cfg, arg) ==
    LET parmData == [arg EXCEPT !.DATASOURCE = upper(@)]
        rows == cfg.CFG_DSRC
        clash == firstClash(rows, "DSRC_CODE", parmData.DATASOURCE, "DSRC_ID", parmData.hasID, parmData.ID)
        id == IF parmData.hasID THEN parmData.ID ELSE nextID(maxOf(rows, "DSRC_ID"), Seed)
    IN IF clash # 0 /\ rows[clash].DSRC_CODE = parmData.DATASOURCE
       THEN R(cfg, FALSE, "Data source already exists!")
       ELSE IF clash # 0 THEN R(cfg, FALSE, "Data source ID already exists!")
       ELSE R([cfg EXCEPT !.CFG_DSRC = Append(@, [DSRC_ID |-> id, DSRC_CODE |-> parmData.DATASOURCE])],
              TRUE, "Successfully added!")

do_deleteDataSource(cfg, arg) ==
    LET code == upper(arg)
    IN IF code = "SEARCH" THEN R(cfg, FALSE, "Cannot delete the SEARCH data source")
       ELSE IF firstIndex(cfg.CFG_DSRC, "DSRC_CODE", code) = 0 THEN R(cfg, FALSE, "Data source not found!")
       ELSE R([cfg EXCEPT !.CFG_DSRC = deleteRows(@, "DSRC_CODE", code)], TRUE, "Successfully deleted!")

(***************************************************************************)
(* do_addElement, do_deleteElement, do_addElementToFeature,                *)
(* do_deleteElementFromFeature.  DATATYPE and TOKENIZE are left out of the *)
(* parms, so they take their defaults "string" and "No".                   *)
(***************************************************************************)
do_addElement(cfg, arg) ==
    LET parmData == [arg EXCEPT !.ELEMENT = upper(@)]
        rows == cfg.CFG_FELEM
        felemID == IF parmData.hasID THEN parmData.ID ELSE nextID(maxOf(rows, "FELEM_ID"), Seed)
    IN IF getRecord(cfg, "CFG_FELEM", "FELEM_CODE", parmData.ELEMENT) # None
       THEN R(cfg, FALSE, "Element already exists!")
       \* max(maxID) of an empty list
       ELSE IF ~parmData.hasID /\ Len(rows) = 0 THEN R(cfg, FALSE, "ValueError")
       ELSE R([cfg EXCEPT !.CFG_FELEM = Append(@, [FELEM_ID |-> felemID, FELEM_CODE |-> parmData.ELEMENT,
                                                   DATA_TYPE |-> "string", TOKENIZE |-> "No"])],
              TRUE, "Successfully added!")

\* the codes of the features whose CFG_FBOM rows hold the element, one per row, in row order
RECURSIVE usedInFrom(_, _, _)
usedInFrom(cfg, felemID, i) ==
    IF i > Len(cfg.CFG_FBOM) THEN <<>>
    ELSE LET fbom == cfg.CFG_FBOM[i]
             owners == SelectSeq(cfg.CFG_FTYPE, LAMBDA f : f.FTYPE_ID = fbom.FTYPE_ID)
             codes == [j \in 1..Len(owners) |-> owners[j].FTYPE_CODE]
         IN (IF fbom.FELEM_ID = felemID THEN codes ELSE <<>>) \o usedInFrom(cfg, felemID, i + 1)

\* del of the first row with the value, then break
deleteFirstRow(rows, field, value) ==
    LET i == firstIndex(rows, field, value)
    IN IF i = 0 THEN rows ELSE SubSeq(rows, 1, i - 1) \o SubSeq(rows, i + 1, Len(rows))

do_deleteElement_unchecked(cfg, arg) ==
    LET felemRecord == getRecord(cfg, "CFG_FELEM", "FELEM_CODE", upper(arg))
    IN IF felemRecord = None THEN R(cfg, FALSE, "Invalid element")
       ELSE R([cfg EXCEPT !.CFG_FELEM = deleteFirstRow(@, "FELEM_ID", felemRecord.FELEM_ID)],
              TRUE, "1 rows deleted!")

\* a refusal carries the list usedIn that its message prints
do_deleteElement(cfg, arg) ==
    LET felemRecord == getRecord(cfg, "CFG_FELEM", "FELEM_CODE", upper(arg))
        usedIn == usedInFrom(cfg, felemRecord.FELEM_ID, 1)
    IN IF felemRecord = None THEN R(cfg, FALSE, "Invalid element")
       ELSE IF usedIn # <<>>
       THEN [cfg |-> cfg, upd |-> FALSE, msg |-> "Can't delete, it is used in these feature(s)",
             usedIn |-> usedIn]
       ELSE R([cfg EXCEPT !.CFG_FELEM = deleteFirstRow(@, "FELEM_ID", felemRecord.FELEM_ID)],
              TRUE, "1 rows deleted!")

do_addElementToFeature(cfg, arg) ==
    LET parmData == [arg EXCEPT !.FEATURE = upper(@), !.ELEMENT = upper(@)]
        ftypeRecord == getRecord(cfg, "CFG_FTYPE", "FTYPE_CODE", parmData.FEATURE)
        felemRecord == getRecord(cfg, "CFG_FELEM", "FELEM_CODE", parmData.ELEMENT)
        felems == cfg.CFG_FELEM
        idClash == parmData.hasID /\ \E i \in 1..Len(felems) : felems[i].FELEM_ID = parmData.ID
        felemID == IF felemRecord # None THEN felemRecord.FELEM_ID
                   ELSE IF parmData.hasID THEN parmData.ID
                   ELSE nextID(maxOf(felems, "FELEM_ID"), Seed)
        c1 == IF felemRecord # None THEN cfg
              ELSE [cfg EXCEPT !.CFG_FELEM = Append(@, [FELEM_ID |-> felemID, FELEM_CODE |-> parmData.ELEMENT,
                                                        DATA_TYPE |-> "string", TOKENIZE |-> "No"])]
        fboms == cfg.CFG_FBOM
        mine == SelectSeq(fboms, LAMBDA r : r.FTYPE_ID = ftypeRecord.FTYPE_ID)
        alreadyExists == \E i \in 1..Len(mine) : mine[i].FELEM_ID = felemID
        newRecord == [FTYPE_ID |-> ftypeRecord.FTYPE_ID, FELEM_ID |-> felemID,
                      EXEC_ORDER |-> maxOf(mine, "EXEC_ORDER") + 1]
    IN IF parmData.FEATURE = "" \/ parmData.ELEMENT = ""
       THEN R(cfg, FALSE, "Both a feature and element must be specified!")
       ELSE IF ftypeRecord = None THEN R(cfg, FALSE, "Invalid feature")
       ELSE IF felemRecord = None /\ idClash THEN R(cfg, FALSE, "Element id already exists!")
       ELSE IF alreadyExists THEN R(c1, FALSE, "Element already exists for feature!")
       ELSE R([c1 EXCEPT !.CFG_FBOM = Append(@, newRecord)], TRUE, "Successfully added to feature!")

do_deleteElementFromFeature(cfg, arg) ==
    LET parmData == [arg EXCEPT !.FEATURE = upper(@), !.ELEMENT = upper(@)]
        ftypeRecord == getRecord(cfg, "CFG_FTYPE", "FTYPE_CODE", parmData.FEATURE)
        felemRecord == getRecord(cfg, "CFG_FELEM", "FELEM_CODE", parmData.ELEMENT)
        hit(r) == r.FTYPE_ID = ftypeRecord.FTYPE_ID /\ r.FELEM_ID = felemRecord.FELEM_ID
    IN IF parmData.FEATURE = "" \/ parmData.ELEMENT = ""
       THEN R(cfg, FALSE, "Both a feature and element must be specified!")
       ELSE IF ftypeRecord = None THEN R(cfg, FALSE, "Invalid feature")
       ELSE IF felemRecord = None THEN R(cfg, FALSE, "Invalid element")
       ELSE IF \A i \in 1..Len(cfg.CFG_FBOM) : ~hit(cfg.CFG_FBOM[i]) THEN R(cfg, FALSE, "Record not found!")
       ELSE R([cfg EXCEPT !.CFG_FBOM = SelectSeq(@, LAMBDA r : ~hit(r))], TRUE, "1 rows deleted!")

(***************************************************************************)
(* do_addStandardizeFunc, do_addExpressionFunc, do_addComparisonFunc: the  *)
(* same code over CFG_SFUNC, CFG_EFUNC and CFG_CFUNC                       *)
(***************************************************************************)
addFunc(cfg, arg, table, codeField, idField) ==
    LET parmData == [arg EXCEPT !.FUNCTION = upper(@)]
        rows == cfg[table]
        id == IF parmData.hasID THEN parmData.ID ELSE nextID(maxOf(rows, idField), Seed)
        newRecord == IF table = "CFG_SFUNC" THEN [SFUNC_ID |-> id, SFUNC_CODE |-> parmData.FUNCTION]
                     ELSE IF table = "CFG_EFUNC" THEN [EFUNC_ID |-> id, EFUNC_CODE |-> parmData.FUNCTION]
                     ELSE [CFUNC_ID |-> id, CFUNC_CODE |-> parmData.FUNCTION]
    IN IF getRecord(cfg, table, codeField, parmData.FUNCTION) # None
       THEN R(cfg, FALSE, "Function already exists!")
       ELSE IF parmData.CONNECTSTR = "" THEN R(cfg, FALSE, "ConnectStr value not specified.")
       ELSE IF ~parmData.hasID /\ Len(rows) = 0 THEN R(cfg, FALSE, "ValueError")
       ELSE R([cfg EXCEPT ![table] = Append(@, newRecord)], TRUE, "Successfully added!")

do_addStandardizeFunc(cfg, arg) == addFunc(cfg, arg, "CFG_SFUNC", "SFUNC_CODE", "SFUNC_ID")

do_addExpressionFunc(cfg, arg) == addFunc(cfg, arg, "CFG_EFUNC", "EFUNC_CODE", "EFUNC_ID")

do_addComparisonFunc(cfg, arg) == addFunc(cfg, arg, "CFG_CFUNC", "CFUNC_CODE", "CFUNC_ID")

(***************************************************************************)
(* do_addFragment.  Fragment codes and sources are sequences of            *)
(* characters; positions are Python's, counted from 0.                     *)
(***************************************************************************)
\* str.find(sub, start): the lowest position at or after start where sub begins, else -1
find(s, sub, start) ==
    LET hits == {p \in start..(Len(s) - Len(sub)) : SubSeq(s, p + 1, p + Len(sub)) = sub}
    IN IF hits = {} THEN -1 ELSE CHOOSE p \in hits : \A q \in hits : p <= q

\* s[a:b] for a, b >= 0
slice(s, a, b) == SubSeq(s, a + 1, IF b < Len(s) THEN b ELSE Len(s))

\* str.replace(sub, ''); with sub = '' the string is returned as it is
RECURSIVE replace(_, _)
replace(s, sub) ==
    IF sub = <<>> THEN s
    ELSE LET p == find(s, sub, 0)
         IN IF p = -1 THEN s
            ELSE SubSeq(s, 1, p) \o replace(SubSeq(s, p + Len(sub) + 1, Len(s)), sub)

kwFRAGMENT == <<"F", "R", "A", "G", "M", "E", "N", "T", "[">>

eof == <<"e", "o", "f">>

digits == <<"0", "1", "2", "3", "4", "5", "6", "7", "8", "9">>

\* str(n) for an int n >= 0: its decimal digits
RECURSIVE str(_)
str(n) == IF n < 10 THEN <<digits[n + 1]>> ELSE str(n \div 10) \o <<digits[(n % 10) + 1]>>

\* ','.join(list) for a list of strings
RECURSIVE join(_)
join(list) ==
    IF list = <<>> THEN <<>>
    ELSE IF Len(list) = 1 THEN list[1]
    ELSE list[1] \o <<",">> \o join(Tail(list))

\* for thisChar in fragmentChars: ...; dependencyList.append(str(fragRecord['ERFRAG_ID']))
RECURSIVE scanFragment(_, _, _, _, _)
scanFragment(cfg, fragmentChars, k, currentFrag, dependencyList) ==
    IF k > Len(fragmentChars) THEN [ok |-> TRUE, dependencyList |-> dependencyList]
    ELSE LET thisChar == fragmentChars[k]
             fragRecord == getRecord(cfg, "CFG_ERFRAG", "ERFRAG_CODE", currentFrag)
         IN IF thisChar = "/" THEN scanFragment(cfg, fragmentChars, k + 1, <<>>, dependencyList)
            ELSE IF currentFrag = eof THEN scanFragment(cfg, fragmentChars, k + 1, currentFrag, dependencyList)
            ELSE IF thisChar \in {"|", " ", "=", ">", "<", ")"}
                 THEN IF fragRecord = None THEN [ok |-> FALSE, dependencyList |-> dependencyList]
                      ELSE scanFragment(cfg, fragmentChars, k + 1, eof,
                                        Append(dependencyList, str(fragRecord.ERFRAG_ID)))
            ELSE scanFragment(cfg, fragmentChars, k + 1, currentFrag \o <<thisChar>>, dependencyList)

\* while startPos > 0: ...; with an empty fragmentString the loop repeats its state for ever
RECURSIVE scanSource(_, _, _)
scanSource(cfg, sourceString, dependencyList) ==
    LET startPos == find(sourceString, kwFRAGMENT, 0)
        fragmentString == slice(sourceString, startPos, find(sourceString, <<"]">>, startPos) + 1)
        r == scanFragment(cfg, fragmentString, 1, eof, dependencyList)
    IN IF ~(startPos > 0) THEN [status |-> "done", dependencyList |-> dependencyList]
       ELSE IF ~r.ok THEN [status |-> "invalid", dependencyList |-> dependencyList]
       ELSE IF fragmentString = <<>> THEN [status |-> "loops", dependencyList |-> dependencyList]
       ELSE scanSource(cfg, replace(sourceString, fragmentString), r.dependencyList)

\* one test of "while startPos > 0" with the loop body that follows it: the loop is left
\* ("done"), the handler returns on an invalid reference ("invalid"), or the body ends and
\* the test comes again ("while") with the span removed from sourceString
scanIteration(cfg, sourceString, dependencyList) ==
    LET startPos == find(sourceString, kwFRAGMENT, 0)
        fragmentString == slice(sourceString, startPos, find(sourceString, <<"]">>, startPos) + 1)
        r == scanFragment(cfg, fragmentString, 1, eof, dependencyList)
    IN IF ~(startPos > 0)
       THEN [pc |-> "done", sourceString |-> sourceString, dependencyList |-> dependencyList]
       ELSE IF ~r.ok
       THEN [pc |-> "invalid", sourceString |-> sourceString, dependencyList |-> dependencyList]
       ELSE [pc |-> "while", sourceString |-> replace(sourceString, fragmentString),
             dependencyList |-> r.dependencyList]

\* no handler is in its dependency scan
IdleScan == [pc |-> "idle", cmd |-> "", parm |-> <<>>, sourceString |-> <<>>, dependencyList |-> <<>>]

\* ERFRAG_DEPENDS is the string ','.join(dependencyList)
do_addFragment(cfg, arg) ==
    LET parmData == arg
        rows == cfg.CFG_ERFRAG
        clash == firstClash(rows, "ERFRAG_CODE", parmData.FRAGMENT, "ERFRAG_ID", parmData.hasID, parmData.ID)
        id == IF parmData.hasID THEN parmData.ID ELSE nextID(maxOf(rows, "ERFRAG_ID"), Seed)
        scan == scanSource(cfg, parmData.SOURCE, <<>>)
    IN IF clash # 0 /\ rows[clash].ERFRAG_CODE = parmData.FRAGMENT THEN R(cfg, FALSE, "Fragment already exists!")
       ELSE IF clash # 0 THEN R(cfg, FALSE, "Fragment ID already exists!")
       ELSE IF ~parmData.hasSource THEN R(cfg, FALSE, "A fragment source field is required!")
       ELSE IF scan.status = "invalid" THEN R(cfg, FALSE, "Invalid fragment reference")
       ELSE IF scan.status = "loops" THEN R(cfg, FALSE, "does not return")
       ELSE R([cfg EXCEPT !.CFG_ERFRAG = Append(@, [ERFRAG_ID |-> id, ERFRAG_CODE |-> parmData.FRAGMENT,
                                                    ERFRAG_SOURCE |-> parmData.SOURCE,
                                                    ERFRAG_DEPENDS |-> join(scan.dependencyList)])],
              TRUE, "Successfully added!")

(***************************************************************************)
(* do_setFragment, do_copyFragment, do_deleteFragment.  The fragment is    *)
(* found by FRAGMENT when the key is there and not blank, else by ID,      *)
(* which the JSON gives as a string of digits (the handlers call           *)
(* parmData['ID'].strip()); codes are typed in upper case.                 *)
(***************************************************************************)
\* searchField and searchValue; None when the argument has neither key
fragmentSearch(parmData) ==
    IF parmData.FRAGMENT # <<>> THEN [field |-> "ERFRAG_CODE", value |-> parmData.FRAGMENT]
    ELSE IF parmData.hasID THEN [field |-> "ERFRAG_ID", value |-> parmData.ID]
    ELSE None

\* the loop over parmData only computes dependencyList; the two assignments after it read
\* parmData['SOURCE'] whether the key is there or not
do_setFragment(cfg, arg) ==
    LET parmData == arg
        search == fragmentSearch(parmData)
        listID == firstIndex(cfg.CFG_ERFRAG, search.field, search.value)
        scan == scanSource(cfg, parmData.SOURCE, <<>>)
    IN IF search = None THEN R(cfg, FALSE, "Error with argument(s)")
       ELSE IF listID = 0 THEN R(cfg, FALSE, "Fragment does not exist!")
       ELSE IF ~parmData.hasSource THEN R(cfg, FALSE, "KeyError")
       ELSE IF scan.status = "invalid" THEN R(cfg, FALSE, "Invalid fragment reference")
       ELSE IF scan.status = "loops" THEN R(cfg, FALSE, "does not return")
       ELSE R([cfg EXCEPT !.CFG_ERFRAG[listID].ERFRAG_SOURCE = parmData.SOURCE,
                          !.CFG_ERFRAG[listID].ERFRAG_DEPENDS = join(scan.dependencyList)],
              TRUE, "Fragment source updated!")

do_copyFragment(cfg, arg) ==
    LET parmData == arg
        rows == cfg.CFG_ERFRAG
        currentFragmentID == firstIndex(rows, "ERFRAG_CODE", parmData.CURRENTFRAGMENT)
        clash == firstClash(rows, "ERFRAG_CODE", parmData.NEWFRAGMENT, "ERFRAG_ID",
                            parmData.hasNEWID, parmData.NEWID)
        newID == IF parmData.hasNEWID THEN parmData.NEWID ELSE nextID(maxOf(rows, "ERFRAG_ID"), Seed)
    IN IF currentFragmentID = 0 THEN R(cfg, FALSE, "Fragment does not exist!")
       ELSE IF clash # 0 /\ rows[clash].ERFRAG_CODE = parmData.NEWFRAGMENT
       THEN R(cfg, FALSE, "Fragment already exists!")
       ELSE IF clash # 0 THEN R(cfg, FALSE, "Fragment ID already exists!")
       ELSE R([cfg EXCEPT !.CFG_ERFRAG = Append(@, [rows[currentFragmentID] EXCEPT
                                                        !.ERFRAG_ID = newID,
                                                        !.ERFRAG_CODE = parmData.NEWFRAGMENT])],
              TRUE, "Successfully copied!")

do_deleteFragment(cfg, arg) ==
    LET parmData == arg
        search == fragmentSearch(parmData)
        deleteCnt == Len(SelectSeq(cfg.CFG_ERFRAG, LAMBDA r : r[search.field] = search.value))
    IN IF search = None THEN R(cfg, FALSE, "Error with argument(s)")
       ELSE IF deleteCnt = 0 THEN R(cfg, FALSE, "0 rows deleted!")
       ELSE R([cfg EXCEPT !.CFG_ERFRAG = deleteRows(@, search.field, search.value)],
              TRUE, "rows deleted!")

(***************************************************************************)
(* do_addRule.  int(parmData['ID']) makes the ID a required field: without *)
(* it the KeyError is caught and nothing is done.  RULE, FRAGMENT, RESOLVE,*)
(* RELATE, REF_SCORE and RTYPE_ID are in every parm; DISQUALIFIER <<>> and *)
(* TIER 0 are the absent ones.                                             *)
(***************************************************************************)
do_addRule(cfg, arg) ==
    LET parmData == arg
        rows == cfg.CFG_ERRULE
        clash == firstClash(rows, "ERRULE_CODE", parmData.RULE, "ERRULE_ID", TRUE, parmData.ID)
    IN IF ~parmData.hasID THEN R(cfg, FALSE, "Error with argument(s)")
       ELSE IF clash # 0 /\ rows[clash].ERRULE_CODE = parmData.RULE THEN R(cfg, FALSE, "Rule already exists!")
       ELSE IF clash # 0 THEN R(cfg, FALSE, "Rule ID already exists!")
       ELSE IF getRecord(cfg, "CFG_ERFRAG", "ERFRAG_CODE", parmData.FRAGMENT) = None
       THEN R(cfg, FALSE, "Invalid fragment reference")
       ELSE IF parmData.DISQUALIFIER # <<>>
               /\ getRecord(cfg, "CFG_ERFRAG", "ERFRAG_CODE", parmData.DISQUALIFIER) = None
       THEN R(cfg, FALSE, "Invalid disqualifer reference")
       ELSE R([cfg EXCEPT !.CFG_ERRULE = Append(@, [ERRULE_ID |-> parmData.ID,
                                                    ERRULE_CODE |-> parmData.RULE,
                                                    ERRULE_DESC |-> IF parmData.DESC # "" THEN parmData.DESC
                                                                    ELSE parmData.RULE,
                                                    RESOLVE |-> parmData.RESOLVE,
                                                    RELATE |-> parmData.RELATE,
                                                    REF_SCORE |-> parmData.REF_SCORE,
                                                    RTYPE_ID |-> parmData.RTYPE_ID,
                                                    QUAL_ERFRAG_CODE |-> parmData.FRAGMENT,
                                                    DISQ_ERFRAG_CODE |-> parmData.DISQUALIFIER,
                                                    ERRULE_TIER |-> parmData.TIER])],
              TRUE, "Successfully added!")

(***************************************************************************)
(* do_setFeature.  The handler goes through the keys of the patch in the   *)
(* order of the JSON text and handles each on its own; the keys write      *)
(* different fields, so the document at the end does not depend on the     *)
(* order, which is taken as BEHAVIOR, ANONYMIZE, CANDIDATES, STANDARDIZE   *)
(* and then the keys the handler does not know (UNKNOWN).                  *)
(***************************************************************************)
\* s.upper() in ('YES', 'Y', 'NO', 'N') and s.upper().startswith('Y')
yesNo(s) == IF upper(s) \in {"YES", "Y"} THEN "Yes" ELSE IF upper(s) \in {"NO", "N"} THEN "No" ELSE ""

\* subListID = 0; for i ...: if CFG_SFCALL[i]['FTYPE_ID'] == ftypeID: subListID = i
\* (counted from 0: the last call of the feature, 0 when there is none)
subListID(cfg, ftypeID) ==
    LET i == lastIndex(cfg.CFG_SFCALL, "FTYPE_ID", ftypeID) IN IF i = 0 THEN 0 ELSE i - 1

do_setFeature(cfg, arg) ==
    LET parmData == [arg EXCEPT !.FEATURE = upper(@)]
        listID == lastIndex(cfg.CFG_FTYPE, "FTYPE_CODE", parmData.FEATURE)
        ftypeID == cfg.CFG_FTYPE[listID].FTYPE_ID
        featureBehaviorDict == parseFeatureBehavior(parmData.BEHAVIOR)
        behaviorOK == parmData.hasBEHAVIOR /\ featureBehaviorDict # None
        anonymizeOK == parmData.hasANONYMIZE /\ yesNo(parmData.ANONYMIZE) # ""
        candidatesOK == parmData.hasCANDIDATES /\ yesNo(parmData.CANDIDATES) # ""
        sfuncRecord == getRecord(cfg, "CFG_SFUNC", "SFUNC_CODE", upper(parmData.STANDARDIZE))
        standardizeOK == parmData.hasSTANDARDIZE /\ sfuncRecord # None /\ subListID(cfg, ftypeID) # 0
        c1 == IF behaviorOK
              THEN [cfg EXCEPT !.CFG_FTYPE[listID].FTYPE_FREQ = featureBehaviorDict.FREQUENCY,
                               !.CFG_FTYPE[listID].FTYPE_EXCL = featureBehaviorDict.EXCLUSIVITY,
                               !.CFG_FTYPE[listID].FTYPE_STAB = featureBehaviorDict.STABILITY]
              ELSE cfg
        c2 == IF anonymizeOK THEN [c1 EXCEPT !.CFG_FTYPE[listID].ANONYMIZE = yesNo(parmData.ANONYMIZE)]
              ELSE c1
        c3 == IF candidatesOK
              THEN [c2 EXCEPT !.CFG_FTYPE[listID].USED_FOR_CAND = yesNo(parmData.CANDIDATES)]
              ELSE c2
        c4 == IF standardizeOK
              THEN [c3 EXCEPT !.CFG_SFCALL[subListID(cfg, ftypeID) + 1].SFUNC_ID = sfuncRecord.SFUNC_ID]
              ELSE c3
        printed ==
            (IF ~parmData.hasBEHAVIOR THEN <<>>
             ELSE IF behaviorOK THEN <<"Behavior successfully updated!">> ELSE <<"Invalid behavior code">>)
            \o (IF ~parmData.hasANONYMIZE THEN <<>>
                ELSE IF anonymizeOK THEN <<"Anonymize setting successfully updated!">>
                ELSE <<"Invalid anonymize setting">>)
            \o (IF ~parmData.hasCANDIDATES THEN <<>>
                ELSE IF candidatesOK THEN <<"Candidates setting successfully updated!">>
                ELSE <<"Invalid candidates setting">>)
            \o (IF ~parmData.hasSTANDARDIZE THEN <<>>
                ELSE IF standardizeOK THEN <<"Standardization function updated!">>
                ELSE IF sfuncRecord # None
                THEN <<"Standardization call can only be added with the feature">>
                ELSE <<"Invalid standardization code">>)
            \o [k \in 1..Len(parmData.UNKNOWN) |-> "Cannot set"]
    IN IF listID = 0 THEN R(cfg, FALSE, "Feature does not exist!")
       ELSE RP(c4, behaviorOK \/ anonymizeOK \/ candidatesOK \/ standardizeOK, printed)

(***************************************************************************)
(* do_setRule.  Every key is read with parmData.get(key): an absent key    *)
(* and an empty value ("" for RESOLVE, RELATE, RULE, DESC; <<>> for        *)
(* FRAGMENT, DISQUALIFIER; 0 for RTYPE_ID) are the same to it.  A key the  *)
(* handler does not know is not looked at.                                 *)
(***************************************************************************)
\* str.capitalize() of a string whose upper() is YES or NO
capitalize(s) == IF upper(s) = "YES" THEN "Yes" ELSE IF upper(s) = "NO" THEN "No" ELSE s

\* the updates of do_setRule: one assignment and one message per key that is given
setRuleUpdates(rule, parmData) ==
    LET r1 == IF parmData.RULE # "" THEN [rule EXCEPT !.ERRULE_CODE = parmData.RULE] ELSE rule
        r2 == IF parmData.DESC # "" THEN [r1 EXCEPT !.ERRULE_DESC = parmData.DESC] ELSE r1
        r3 == IF parmData.FRAGMENT # <<>> THEN [r2 EXCEPT !.QUAL_ERFRAG_CODE = parmData.FRAGMENT] ELSE r2
        r4 == IF parmData.DISQUALIFIER # <<>> THEN [r3 EXCEPT !.DISQ_ERFRAG_CODE = parmData.DISQUALIFIER]
              ELSE r3
        r5 == IF parmData.RESOLVE # "" THEN [r4 EXCEPT !.RESOLVE = capitalize(parmData.RESOLVE)] ELSE r4
        r6 == IF parmData.RELATE # "" THEN [r5 EXCEPT !.RELATE = capitalize(parmData.RELATE)] ELSE r5
        r7 == IF parmData.RTYPE_ID # 0 THEN [r6 EXCEPT !.RTYPE_ID = parmData.RTYPE_ID] ELSE r6
    IN [rule |-> r7,
        printed |-> (IF parmData.RULE # "" THEN <<"Rule code updated!">> ELSE <<>>)
                    \o (IF parmData.DESC # "" THEN <<"Rule description updated!">> ELSE <<>>)
                    \o (IF parmData.FRAGMENT # <<>> THEN <<"Rule fragment updated!">> ELSE <<>>)
                    \o (IF parmData.DISQUALIFIER # <<>> THEN <<"Rule disqualifier updated!">> ELSE <<>>)
                    \o (IF parmData.RESOLVE # "" THEN <<"Rule resolve updated!">> ELSE <<>>)
                    \o (IF parmData.RELATE # "" THEN <<"Rule relate updated!">> ELSE <<>>)
                    \o (IF parmData.RTYPE_ID # 0
                        THEN <<"Relationship type (RTYPE_ID) updated!">> ELSE <<>>)]

\* do_setRule without lines 4677-4679: RESOLVE Yes leaves RELATE and RTYPE_ID as the patch has them
do_setRule_keepsRelate(cfg, arg) ==
    LET listID == lastIndex(cfg.CFG_ERRULE, "ERRULE_ID", arg.ID)
        p1 == arg
        relateYes == p1.RELATE # "" /\ upper(p1.RELATE) = "YES"
        parmData == IF relateYes /\ p1.RTYPE_ID = 0 /\ cfg.CFG_ERRULE[listID].RTYPE_ID = 1
                    THEN [p1 EXCEPT !.RTYPE_ID = 2] ELSE p1
        u == setRuleUpdates(cfg.CFG_ERRULE[listID], parmData)
    IN IF ~arg.hasID THEN R(cfg, FALSE, "Error with argument(s)")
       ELSE IF listID = 0 THEN R(cfg, FALSE, "Rule does not exist!")
       ELSE IF arg.RESOLVE # "" /\ upper(arg.RESOLVE) \notin {"YES", "NO"}
       THEN R(cfg, FALSE, "ERROR: Resolve should be Yes or No")
       ELSE IF p1.RELATE # "" /\ upper(p1.RELATE) \notin {"YES", "NO"}
       THEN R(cfg, FALSE, "ERROR: Relate should be Yes or No")
       ELSE IF relateYes /\ p1.RTYPE_ID # 0 /\ p1.RTYPE_ID \notin {2, 3, 4}
       THEN R(cfg, FALSE, "ERROR: Relationship type (RTYPE_ID) must be 2, 3 or 4")
       ELSE RP([cfg EXCEPT !.CFG_ERRULE[listID] = u.rule], u.printed # <<>>, u.printed)

do_setRule(cfg, arg) ==
    LET listID == lastIndex(cfg.CFG_ERRULE, "ERRULE_ID", arg.ID)
        resolveYes == arg.RESOLVE # "" /\ upper(arg.RESOLVE) = "YES"
        p1 == IF resolveYes THEN [arg EXCEPT !.RELATE = "No", !.RTYPE_ID = 1] ELSE arg
        relateYes == p1.RELATE # "" /\ upper(p1.RELATE) = "YES"
        parmData == IF relateYes /\ p1.RTYPE_ID = 0 /\ cfg.CFG_ERRULE[listID].RTYPE_ID = 1
                    THEN [p1 EXCEPT !.RTYPE_ID = 2] ELSE p1
        u == setRuleUpdates(cfg.CFG_ERRULE[listID], parmData)
    IN IF ~arg.hasID THEN R(cfg, FALSE, "Error with argument(s)")
       ELSE IF listID = 0 THEN R(cfg, FALSE, "Rule does not exist!")
       ELSE IF arg.RESOLVE # "" /\ upper(arg.RESOLVE) \notin {"YES", "NO"}
       THEN R(cfg, FALSE, "ERROR: Resolve should be Yes or No")
       ELSE IF p1.RELATE # "" /\ upper(p1.RELATE) \notin {"YES", "NO"}
       THEN R(cfg, FALSE, "ERROR: Relate should be Yes or No")
       ELSE IF relateYes /\ p1.RTYPE_ID # 0 /\ p1.RTYPE_ID \notin {2, 3, 4}
       THEN R(cfg, FALSE, "ERROR: Relationship type (RTYPE_ID) must be 2, 3 or 4")
       ELSE RP([cfg EXCEPT !.CFG_ERRULE[listID] = u.rule], u.printed # <<>>, u.printed)

(***************************************************************************)
(* The list and get commands of features and attributes, with no search    *)
(* filter.  getRecord and getRecordList return the rows of the document    *)
(* themselves, so an assignment to a key of a row is an assignment in the  *)
(* document.  printed holds what identifies each line of the output.       *)
(***************************************************************************)
\* the row after lines 2015-2018: ADVANCED and INTERNAL are set where the row has none
getAttributeJson(attributeRecord) ==
    attributeRecord @@ ("ADVANCED" :> "No") @@ ("INTERNAL" :> "No")

\* the indices of the rows that getRecordList(table, field, value) returns
getRecordList(cfg, table, field, value) ==
    {i \in 1..Len(cfg[table]) : cfg[table][i][field] = value}

\* the document after getAttributeJson was called for the rows at the indices
attributesRead(cfg, indices) ==
    [cfg EXCEPT !.CFG_ATTR = [i \in 1..Len(cfg.CFG_ATTR) |->
                                IF i \in indices THEN getAttributeJson(cfg.CFG_ATTR[i]) ELSE cfg.CFG_ATTR[i]]]

do_listAttributes(cfg) ==
    [cfg |-> attributesRead(cfg, 1..Len(cfg.CFG_ATTR)), upd |-> FALSE, msg |-> "",
     printed |-> [i \in 1..Len(cfg.CFG_ATTR) |-> cfg.CFG_ATTR[i].ATTR_CODE]]

do_getAttribute(cfg, arg) ==
    LET attribute == upper(arg)
        byCode == getRecordList(cfg, "CFG_ATTR", "ATTR_CODE", attribute)
        attrRecords == IF byCode # {} THEN byCode ELSE getRecordList(cfg, "CFG_ATTR", "FTYPE_CODE", attribute)
    IN IF arg = "" THEN R(cfg, FALSE, "")
       ELSE IF attrRecords = {} THEN R(cfg, FALSE, "Attribute not found")
       ELSE R(attributesRead(cfg, attrRecords), FALSE, attribute)

\* what identifies the JSON of a feature: its code; with no CFG_FCLASS row for the feature
\* the text is no JSON, and json.loads raises a ValueError
getFeatureJson(cfg, ftypeRecord) ==
    IF getRecord(cfg, "CFG_FCLASS", "FCLASS_ID", ftypeRecord.FCLASS_ID) = None THEN "ValueError"
    ELSE ftypeRecord.FTYPE_CODE

do_getFeature(cfg, arg) ==
    LET ftypeRecord == getRecord(cfg, "CFG_FTYPE", "FTYPE_CODE", upper(arg))
    IN IF arg = "" THEN R(cfg, FALSE, "")
       ELSE IF ftypeRecord = None THEN R(cfg, FALSE, "Feature not found")
       ELSE R(cfg, FALSE, getFeatureJson(cfg, ftypeRecord))

\* the lines are given in the order of the table
do_listFeatures(cfg) ==
    LET lines == [i \in 1..Len(cfg.CFG_FTYPE) |-> getFeatureJson(cfg, cfg.CFG_FTYPE[i])]
    IN IF \E i \in 1..Len(lines) : lines[i] = "ValueError" THEN R(cfg, FALSE, "ValueError")
       ELSE [cfg |-> cfg, upd |-> FALSE, msg |-> "", printed |-> lines]

(***************************************************************************)
(* do_listGenericThresholds.  getRecordList returns the rows of the table  *)
(* themselves, so the key BEHAVIOR_ORDER that the handler sets for sorting *)
(* is set in the document.                                                 *)
(***************************************************************************)
behavior_sort_order ==
    <<BehaviorNAME, <<"A", "1">>, <<"A", "1", "E">>, <<"A", "1", "E", "S">>,
      <<"F", "1">>, <<"F", "1", "E">>, <<"F", "1", "E", "S">>,
      <<"F", "F">>, <<"F", "F", "E">>, <<"F", "F", "E", "S">>,
      <<"F", "M">>, <<"F", "M", "E">>, <<"F", "M", "E", "S">>,
      <<"F", "V", "M">>, <<"F", "V", "M", "E">>, <<"F", "V", "M", "E", "S">>>>

\* behavior_sort_order.index(behavior), 99 where index raises
behaviorOrder(behavior) ==
    IF \E k \in 1..Len(behavior_sort_order) : behavior_sort_order[k] = behavior
    THEN (CHOOSE k \in 1..Len(behavior_sort_order) : behavior_sort_order[k] = behavior) - 1
    ELSE 99

\* sorted(recordList, key=lambda k: (k['GPLAN_ID'], k['BEHAVIOR_ORDER'])): a stable sort
RECURSIVE sortedThresholds(_)
sortedThresholds(rows) ==
    IF rows = <<>> THEN <<>>
    ELSE LET before(a, b) == \/ a.GPLAN_ID < b.GPLAN_ID
                             \/ a.GPLAN_ID = b.GPLAN_ID /\ a.BEHAVIOR_ORDER < b.BEHAVIOR_ORDER
             first == CHOOSE i \in 1..Len(rows) :
                         /\ \A j \in 1..Len(rows) : ~before(rows[j], rows[i])
                         /\ \A j \in 1..(i - 1) : before(rows[i], rows[j])
         IN <<rows[first]>> \o sortedThresholds(SubSeq(rows, 1, first - 1) \o SubSeq(rows, first + 1, Len(rows)))

\* the command with no search filter; printed holds the feature of each line
do_listGenericThresholds(cfg) ==
    LET recordList == [i \in 1..Len(cfg.CFG_GENERIC_THRESHOLD) |->
                          ("BEHAVIOR_ORDER" :> behaviorOrder(cfg.CFG_GENERIC_THRESHOLD[i].BEHAVIOR))
                              @@ cfg.CFG_GENERIC_THRESHOLD[i]]
        c1 == [cfg EXCEPT !.CFG_GENERIC_THRESHOLD = recordList]
        lines == sortedThresholds(recordList)
        ftypeCode(r) == IF r.FTYPE_ID # 0 THEN getRecord(c1, "CFG_FTYPE", "FTYPE_ID", r.FTYPE_ID).FTYPE_CODE
                        ELSE "all"
    IN IF \E i \in 1..Len(lines) :
             lines[i].FTYPE_ID # 0 /\ getRecord(c1, "CFG_FTYPE", "FTYPE_ID", lines[i].FTYPE_ID) = None
       \* None["FTYPE_CODE"]
       THEN R(c1, FALSE, "TypeError")
       ELSE [cfg |-> c1, upd |-> FALSE, msg |-> "", printed |-> [i \in 1..Len(lines) |-> ftypeCode(lines[i])]]

(***************************************************************************)
(* do_addComparisonFuncReturnCode.  The feature code is looked up as it is *)
(* given; a score that the request does not hold takes its default.        *)
(***************************************************************************)
do_addComparisonFuncReturnCode(cfg, arg) ==
    LET parmData == [arg EXCEPT !.FUNCTION = upper(@), !.SCORENAME = upper(@)]
        cfuncRecord == getRecord(cfg, "CFG_CFUNC", "CFUNC_CODE", parmData.FUNCTION)
        cfuncID == cfuncRecord.CFUNC_ID
        ftypeRecord == getRecord(cfg, "CFG_FTYPE", "FTYPE_CODE", parmData.FEATURE)
        ftypeID == IF parmData.hasFeature THEN ftypeRecord.FTYPE_ID ELSE 0
        rows == cfg.CFG_CFRTN
        same(r) == r.CFUNC_ID = cfuncID /\ r.FTYPE_ID = ftypeID
        cfrtnID == IF parmData.hasID THEN parmData.ID ELSE nextID(maxOf(rows, "CFRTN_ID"), 1000)
        execOrder == maxOf(SelectSeq(rows, same), "EXEC_ORDER") + 1
    IN IF cfuncRecord = None THEN R(cfg, FALSE, "Function does not exist!")
       ELSE IF parmData.hasFeature /\ ftypeRecord = None THEN R(cfg, FALSE, "Feature does not exist!")
       ELSE IF \E i \in 1..Len(rows) : same(rows[i]) /\ rows[i].CFUNC_RTNVAL = parmData.SCORENAME
       THEN R(cfg, FALSE, "Comparison function return value for feature already exists!")
       \* max() of an empty list
       ELSE IF ~parmData.hasID /\ rows = <<>> THEN R(cfg, FALSE, "ValueError")
       ELSE R([cfg EXCEPT !.CFG_CFRTN =
                   Append(@, [CFRTN_ID |-> cfrtnID, CFUNC_ID |-> cfuncID, FTYPE_ID |-> ftypeID,
                              CFUNC_RTNVAL |-> parmData.SCORENAME, EXEC_ORDER |-> execOrder,
                              SAME_SCORE |-> IF parmData.hasSAMESCORE THEN parmData.SAMESCORE ELSE 100,
                              CLOSE_SCORE |-> 90, LIKELY_SCORE |-> 80, PLAUSIBLE_SCORE |-> 70,
                              UN_LIKELY_SCORE |-> 60])],
              TRUE, "Successfully added!")

(***************************************************************************)
(* do_addGenericThreshold.  PLAN and BEHAVIOR are given in upper case,     *)
(* SENDTOREDO as "YES" or "NO"; the feature code is looked up as given.    *)
(***************************************************************************)
getFeatureBehavior(feature) ==
    feature.FTYPE_FREQ
        \o (IF upper(feature.FTYPE_EXCL) \in {"1", "Y", "YES"} THEN <<"E">> ELSE <<>>)
        \o (IF upper(feature.FTYPE_STAB) \in {"1", "Y", "YES"} THEN <<"S">> ELSE <<>>)

\* the last index i (from 0) of a row with the plan, behavior and feature; 0 when there is none
thresholdListID(rows, gplan_id, behavior, ftypeID) ==
    LET hits == {i \in 1..Len(rows) : /\ rows[i].GPLAN_ID = gplan_id
                                      /\ rows[i].BEHAVIOR = behavior
                                      /\ rows[i].FTYPE_ID = ftypeID}
    IN IF hits = {} THEN 0 ELSE (CHOOSE i \in hits : \A j \in hits : j <= i) - 1

do_addGenericThreshold(cfg, arg) ==
    LET parmData == arg
        gplan_id == IF parmData.PLAN = "LOAD" THEN 1 ELSE 2
        ftypeRecord == getRecord(cfg, "CFG_FTYPE", "FTYPE_CODE", parmData.FEATURE)
        ftypeID == IF parmData.hasFeature THEN ftypeRecord.FTYPE_ID ELSE 0
        listID == thresholdListID(cfg.CFG_GENERIC_THRESHOLD, gplan_id, parmData.BEHAVIOR, ftypeID)
    IN IF parmData.PLAN \notin {"LOAD", "SEARCH"} THEN R(cfg, FALSE, "Plan must either be LOAD or SEARCH")
       ELSE IF parseFeatureBehavior(parmData.BEHAVIOR) = None THEN R(cfg, FALSE, "is not a valid feature behavior")
       ELSE IF parmData.hasFeature /\ ftypeRecord = None THEN R(cfg, FALSE, "is not a valid feature")
       ELSE IF parmData.hasFeature /\ getFeatureBehavior(ftypeRecord) # parmData.BEHAVIOR
       THEN R(cfg, FALSE, "does not match threshold behavior")
       ELSE IF parmData.SENDTOREDO \notin {"YES", "NO"} THEN R(cfg, FALSE, "SendToRedo must be Yes or No")
       ELSE IF listID # 0 THEN R(cfg, FALSE, "Generic threshold already exists.")
       ELSE R([cfg EXCEPT !.CFG_GENERIC_THRESHOLD =
                   Append(@, [GPLAN_ID |-> gplan_id, BEHAVIOR |-> parmData.BEHAVIOR, FTYPE_ID |-> ftypeID,
                              CANDIDATE_CAP |-> parmData.CANDIDATECAP, SCORING_CAP |-> parmData.SCORINGCAP,
                              SEND_TO_REDO |-> IF parmData.SENDTOREDO = "YES" THEN "Yes" ELSE "No"])],
              TRUE, "Successfully added!")

(***************************************************************************)
(* do_setGenericThreshold.  CANDIDATECAP, SCORINGCAP and SENDTOREDO are    *)
(* tested with 'in parmData', so each has a flag that says the key is      *)
(* there; a key the handler does not know is not looked at.                *)
(***************************************************************************)
\* listID = -1; for i ...: if the row has the plan, behavior and feature: listID = i
\* (the last such row; 0 when there is none)
thresholdLastIndex(rows, gplan_id, behavior, ftypeID) ==
    LET hits == {i \in 1..Len(rows) : /\ rows[i].GPLAN_ID = gplan_id
                                      /\ rows[i].BEHAVIOR = behavior
                                      /\ rows[i].FTYPE_ID = ftypeID}
    IN IF hits = {} THEN 0 ELSE CHOOSE i \in hits : \A j \in hits : j <= i

do_setGenericThreshold(cfg, arg) ==
    LET parmData == arg
        gplan_id == IF parmData.PLAN = "LOAD" THEN 1 ELSE 2
        ftypeRecord == getRecord(cfg, "CFG_FTYPE", "FTYPE_CODE", parmData.FEATURE)
        ftypeID == IF parmData.hasFeature THEN ftypeRecord.FTYPE_ID ELSE 0
        listID == thresholdLastIndex(cfg.CFG_GENERIC_THRESHOLD, gplan_id, parmData.BEHAVIOR, ftypeID)
        row == cfg.CFG_GENERIC_THRESHOLD[listID]
        r1 == IF parmData.hasCANDIDATECAP THEN [row EXCEPT !.CANDIDATE_CAP = parmData.CANDIDATECAP] ELSE row
        r2 == IF parmData.hasSCORINGCAP THEN [r1 EXCEPT !.SCORING_CAP = parmData.SCORINGCAP] ELSE r1
        r3 == IF parmData.hasSENDTOREDO
              THEN [r2 EXCEPT !.SEND_TO_REDO = IF upper(parmData.SENDTOREDO) = "YES" THEN "Yes" ELSE "No"]
              ELSE r2
        printed == (IF parmData.hasCANDIDATECAP THEN <<"Candidate cap updated!">> ELSE <<>>)
                   \o (IF parmData.hasSCORINGCAP THEN <<"Scoring cap updated!">> ELSE <<>>)
                   \o (IF parmData.hasSENDTOREDO THEN <<"Send to redo updated!">> ELSE <<>>)
    IN IF parmData.PLAN \notin {"LOAD", "SEARCH"} THEN R(cfg, FALSE, "Error with argument(s)")
       ELSE IF parmData.hasFeature /\ ftypeRecord = None THEN R(cfg, FALSE, "is not a valid feature")
       ELSE IF parmData.hasSENDTOREDO /\ parmData.SENDTOREDO # ""
               /\ upper(parmData.SENDTOREDO) \notin {"YES", "NO"}
       THEN R(cfg, FALSE, "SendToRedo must be Yes or No")
       ELSE IF listID = 0 THEN R(cfg, FALSE, "Threshold does not exist!")
       ELSE RP([cfg EXCEPT !.CFG_GENERIC_THRESHOLD[listID] = r3], printed # <<>>, printed)

(***************************************************************************)
(* do_exportToFile, do_importFromFile.  json.dump(cfgData, fp, indent=4,   *)
(* sort_keys=True) writes every object's keys in sorted order, an int as   *)
(* its decimal digits and a string between quotes; json.load reads them    *)
(* back.  A file is the sequence of (table key, rows) pairs of G2_CONFIG,  *)
(* a row the sequence of its (field, text of the value) pairs.             *)
(***************************************************************************)
\* the keys of G2_CONFIG and the fields of its rows, in sorted order
sortedTables ==
    <<"CFG_ATTR", "CFG_CFBOM", "CFG_CFCALL", "CFG_CFRTN", "CFG_CFUNC", "CFG_DFBOM", "CFG_DFCALL",
      "CFG_DSRC", "CFG_EBOM", "CFG_EFBOM", "CFG_EFCALL", "CFG_EFUNC", "CFG_ERFRAG", "CFG_ERRULE", "CFG_FBOM",
      "CFG_FCLASS", "CFG_FELEM", "CFG_FTYPE", "CFG_GENERIC_THRESHOLD", "CFG_SFCALL", "CFG_SFUNC",
      "XXX_DFBOM", "XXX_DFCALL">>

sortedFields ==
    <<"ADVANCED", "ANONYMIZE", "ATTR_CLASS", "ATTR_CODE", "ATTR_ID", "BEHAVIOR", "BEHAVIOR_ORDER",
      "CANDIDATE_CAP",
      "CFCALL_ID",
      "CFRTN_ID", "CFUNC_CODE", "CFUNC_ID", "CFUNC_RTNVAL", "CLOSE_SCORE", "DATA_TYPE", "DFCALL_ID", "DFUNC_ID", "DISQ_ERFRAG_CODE", "DSRC_CODE",
      "DSRC_ID", "EFCALL_ID", "EFEAT_FTYPE_ID", "EFUNC_CODE", "EFUNC_ID", "ERFRAG_CODE",
      "ERFRAG_DEPENDS", "ERFRAG_ID", "ERFRAG_SOURCE", "ERRULE_CODE", "ERRULE_DESC", "ERRULE_ID",
      "ERRULE_TIER", "ETYPE_ID", "EXEC_ORDER", "FCLASS_CODE", "FCLASS_ID", "FELEM_CODE", "FELEM_ID",
      "FTYPE_CODE", "FTYPE_EXCL", "FTYPE_FREQ", "FTYPE_ID", "FTYPE_STAB", "GPLAN_ID",
      "INTERNAL", "LIKELY_SCORE", "PLAUSIBLE_SCORE", "QUAL_ERFRAG_CODE", "REF_SCORE", "RELATE", "RESOLVE",
      "RTYPE_ID", "SAME_SCORE", "SCORING_CAP", "SEND_TO_REDO", "SFCALL_ID", "SFUNC_CODE", "SFUNC_ID",
      "TOKENIZE", "UN_LIKELY_SCORE", "USED_FOR_CAND">>

\* the fields that hold an int
intFields ==
    {"ATTR_ID", "BEHAVIOR_ORDER", "CANDIDATE_CAP", "CFCALL_ID", "CFRTN_ID", "CFUNC_ID", "CLOSE_SCORE", "LIKELY_SCORE",
     "PLAUSIBLE_SCORE", "SAME_SCORE", "UN_LIKELY_SCORE", "DFCALL_ID", "DFUNC_ID", "DSRC_ID",
     "EFCALL_ID", "EFEAT_FTYPE_ID", "EFUNC_ID", "ERFRAG_ID", "ERRULE_ID", "ERRULE_TIER", "ETYPE_ID",
     "EXEC_ORDER", "FCLASS_ID", "FELEM_ID", "FTYPE_ID", "GPLAN_ID", "REF_SCORE", "RTYPE_ID",
     "SCORING_CAP", "SFCALL_ID", "SFUNC_ID"}

\* the fields whose string is kept as its sequence of characters
charFields ==
    {"BEHAVIOR", "DISQ_ERFRAG_CODE", "ERFRAG_CODE", "ERFRAG_DEPENDS", "ERFRAG_SOURCE", "FTYPE_FREQ",
     "QUAL_ERFRAG_CODE"}

\* the dict G2_CONFIG of a document: the backup of do_setDistinct is its keys XXX_DFCALL
\* and XXX_DFBOM
tablesOf(cfg) ==
    [t \in (DOMAIN cfg \ {"XXX"}) \cup (IF cfg.XXX = <<>> THEN {} ELSE {"XXX_DFCALL", "XXX_DFBOM"}) |->
        IF t = "XXX_DFCALL" THEN cfg.XXX[1].DFCALL
        ELSE IF t = "XXX_DFBOM" THEN cfg.XXX[1].DFBOM
        ELSE cfg[t]]

documentOf(tables) ==
    [t \in (DOMAIN tables \ {"XXX_DFCALL", "XXX_DFBOM"}) \cup {"XXX"} |->
        IF t # "XXX" THEN tables[t]
        ELSE IF "XXX_DFCALL" \in DOMAIN tables
        THEN <<[DFCALL |-> tables["XXX_DFCALL"], DFBOM |-> tables["XXX_DFBOM"]]>>
        ELSE <<>>]

dumpInt_unsigned(n) == IF n < 0 THEN str(0 - n) ELSE str(n)

\* the text json.dump writes for an int
dumpInt(n) == IF n < 0 THEN <<"-">> \o str(0 - n) ELSE str(n)

\* the int json.load reads from the text
RECURSIVE loadDigits(_)
loadDigits(text) ==
    IF text = <<>> THEN 0
    ELSE 10 * loadDigits(SubSeq(text, 1, Len(text) - 1))
            + ((CHOOSE d \in 1..10 : digits[d] = text[Len(text)]) - 1)

loadInt(text) == IF text[1] = "-" THEN 0 - loadDigits(Tail(text)) ELSE loadDigits(text)

dumpValue(field, value) ==
    IF field \in intFields THEN dumpInt(value)
    ELSE IF field \in charFields THEN <<"\"">> \o value \o <<"\"">>
    ELSE <<"\"", value, "\"">>

loadValue(field, text) ==
    IF text[1] # "\"" THEN loadInt(text)
    ELSE IF field \in charFields THEN SubSeq(text, 2, Len(text) - 1)
    ELSE text[2]

dumpRow(row) ==
    LET keys == SelectSeq(sortedFields, LAMBDA f : f \in DOMAIN row)
    IN [i \in 1..Len(keys) |-> <<keys[i], dumpValue(keys[i], row[keys[i]])>>]

loadRow(pairs) ==
    [f \in {pairs[i][1] : i \in 1..Len(pairs)} |->
        LET i == CHOOSE j \in 1..Len(pairs) : pairs[j][1] = f
        IN loadValue(f, pairs[i][2])]

\* json.dump(self.cfgData, fp, indent=4, sort_keys=True)
dump(cfg) ==
    LET tables == tablesOf(cfg)
        keys == SelectSeq(sortedTables, LAMBDA t : t \in DOMAIN tables)
    IN [i \in 1..Len(keys) |->
            <<keys[i], [k \in 1..Len(tables[keys[i]]) |-> dumpRow(tables[keys[i]][k])]>>]

\* json.load(open(arg))
load(text) ==
    documentOf([t \in {text[i][1] : i \in 1..Len(text)} |->
                    LET i == CHOOSE j \in 1..Len(text) : text[j][1] = t
                    IN [k \in 1..Len(text[i][2]) |-> loadRow(text[i][2][k])]])

\* the files of the working directory: none yet
NoFiles == <<>>

\* arg is the file name and opens tells whether open(arg, 'w') succeeds; its OSError is
\* printed
do_exportToFile(cfg, fs, arg, opens) ==
    IF arg = "" THEN [cfg |-> cfg, upd |-> FALSE, msg |-> "", files |-> fs]
    ELSE IF ~opens
    THEN [cfg |-> cfg, upd |-> FALSE, msg |-> "No such file or directory", files |-> fs]
    ELSE [cfg |-> cfg, upd |-> FALSE, msg |-> "Successfully exported!",
          files |-> (arg :> dump(cfg)) @@ fs]

\* arg is the file name and answer what is typed at the prompt "You have unsaved
\* changes, are you sure you want to discard them?"; open() of a file that does not
\* exist raises FileNotFoundError, which nothing catches
do_importFromFile(cfg, updated, fs, arg, answer) ==
    IF arg = "" THEN R(cfg, FALSE, "")
    ELSE IF updated /\ upper(answer) \notin {"Y", "YES"} THEN R(cfg, FALSE, "")
    ELSE IF arg \notin DOMAIN fs THEN R(cfg, FALSE, "FileNotFoundError")
    ELSE R(load(fs[arg]), FALSE, "Successfully imported!")

\* do_save typed at the prompt: answer is what is typed at "Are you certain you wish to
\* proceed and save changes?", added whether addConfig and setDefaultConfigID went through;
\* the configuration manager is given json.dumps of the document
do_save(cfg, updated, answer, added) ==
    IF ~updated THEN R(cfg, FALSE, "There were no changes to save")
    ELSE IF upper(answer) \notin {"Y", "YES"} THEN R(cfg, FALSE, "Configuration changes have not been saved!")
    ELSE IF ~added THEN R(cfg, FALSE, "G2ModuleGenericException")
    ELSE [cfg |-> cfg, upd |-> FALSE, msg |-> "Configuration changes saved!", saved |-> dump(cfg)]

(***************************************************************************)
(* The document loadConfig reads: a small configuration of shipped rows    *)
(* (IDs below the seed).  NAME is a locked feature; SSN is an unlocked one *)
(* that owns a call of every kind; EMAIL_KEY is an element no feature uses.*)
(***************************************************************************)
shippedConfig ==
    [CFG_DSRC |-> <<[DSRC_ID |-> 1, DSRC_CODE |-> "TEST"], [DSRC_ID |-> 2, DSRC_CODE |-> "SEARCH"]>>,
     CFG_FCLASS |-> <<[FCLASS_ID |-> 1, FCLASS_CODE |-> "NAME"],
                      [FCLASS_ID |-> 7, FCLASS_CODE |-> "OTHER"]>>,
     CFG_FTYPE |-> <<[FTYPE_ID |-> 1, FTYPE_CODE |-> "NAME", FCLASS_ID |-> 1,
                      FTYPE_FREQ |-> BehaviorNAME, FTYPE_EXCL |-> "No", FTYPE_STAB |-> "No",
                      ANONYMIZE |-> "No", USED_FOR_CAND |-> "No"],
                     [FTYPE_ID |-> 7, FTYPE_CODE |-> "SSN", FCLASS_ID |-> 7,
                      FTYPE_FREQ |-> <<"F", "1">>, FTYPE_EXCL |-> "Yes", FTYPE_STAB |-> "Yes",
                      ANONYMIZE |-> "No", USED_FOR_CAND |-> "Yes"]>>,
     CFG_FELEM |-> <<[FELEM_ID |-> 2, FELEM_CODE |-> "FULL_NAME", DATA_TYPE |-> "string", TOKENIZE |-> "No"],
                     [FELEM_ID |-> 5, FELEM_CODE |-> "ID_NUM", DATA_TYPE |-> "string", TOKENIZE |-> "No"],
                     [FELEM_ID |-> 9, FELEM_CODE |-> "EMAIL_KEY", DATA_TYPE |-> "string", TOKENIZE |-> "No"]>>,
     CFG_FBOM |-> <<[FTYPE_ID |-> 1, FELEM_ID |-> 2, EXEC_ORDER |-> 1],
                    [FTYPE_ID |-> 7, FELEM_ID |-> 5, EXEC_ORDER |-> 1]>>,
     CFG_EBOM |-> <<[ETYPE_ID |-> 1, EXEC_ORDER |-> 1, FTYPE_ID |-> 7]>>,
     CFG_ATTR |-> <<[ATTR_ID |-> 1101, ATTR_CODE |-> "NAME_FULL", ATTR_CLASS |-> "NAME",
                     FTYPE_CODE |-> "NAME", FELEM_CODE |-> "FULL_NAME"],
                    [ATTR_ID |-> 1201, ATTR_CODE |-> "SSN_NUMBER", ATTR_CLASS |-> "IDENTIFIER",
                     FTYPE_CODE |-> "SSN", FELEM_CODE |-> "ID_NUM"]>>,
     CFG_SFUNC |-> <<[SFUNC_ID |-> 1, SFUNC_CODE |-> "PARSE_NAME"],
                     [SFUNC_ID |-> 4, SFUNC_CODE |-> "PARSE_ID"]>>,
     CFG_EFUNC |-> <<[EFUNC_ID |-> 3, EFUNC_CODE |-> "EXPRESS_ID"]>>,
     CFG_CFUNC |-> <<[CFUNC_ID |-> 2, CFUNC_CODE |-> "EXACT_COMP"]>>,
     CFG_CFRTN |-> <<[CFRTN_ID |-> 1, CFUNC_ID |-> 2, FTYPE_ID |-> 0, CFUNC_RTNVAL |-> "FULL_SCORE",
                      EXEC_ORDER |-> 1, SAME_SCORE |-> 100, CLOSE_SCORE |-> 90, LIKELY_SCORE |-> 80,
                      PLAUSIBLE_SCORE |-> 70, UN_LIKELY_SCORE |-> 60]>>,
     CFG_SFCALL |-> <<[SFCALL_ID |-> 1, SFUNC_ID |-> 1, EXEC_ORDER |-> 1, FTYPE_ID |-> 1,
                       FELEM_ID |-> NotApplicable],
                      [SFCALL_ID |-> 4, SFUNC_ID |-> 4, EXEC_ORDER |-> 1, FTYPE_ID |-> 7,
                       FELEM_ID |-> NotApplicable]>>,
     CFG_EFCALL |-> <<[EFCALL_ID |-> 3, EFUNC_ID |-> 3, EXEC_ORDER |-> 1, FTYPE_ID |-> 7,
                       FELEM_ID |-> NotApplicable, EFEAT_FTYPE_ID |-> NotApplicable]>>,
     CFG_EFBOM |-> <<[EFCALL_ID |-> 3, EXEC_ORDER |-> 1, FTYPE_ID |-> 7, FELEM_ID |-> 5]>>,
     CFG_CFCALL |-> <<[CFCALL_ID |-> 1, CFUNC_ID |-> 2, EXEC_ORDER |-> 1, FTYPE_ID |-> 1],
                      [CFCALL_ID |-> 6, CFUNC_ID |-> 2, EXEC_ORDER |-> 1, FTYPE_ID |-> 7]>>,
     CFG_CFBOM |-> <<[CFCALL_ID |-> 1, EXEC_ORDER |-> 1, FTYPE_ID |-> 1, FELEM_ID |-> 2],
                     [CFCALL_ID |-> 6, EXEC_ORDER |-> 1, FTYPE_ID |-> 7, FELEM_ID |-> 5]>>,
     CFG_DFCALL |-> <<[DFCALL_ID |-> 1, DFUNC_ID |-> 1, EXEC_ORDER |-> 1, FTYPE_ID |-> 1],
                      [DFCALL_ID |-> 5, DFUNC_ID |-> 1, EXEC_ORDER |-> 1, FTYPE_ID |-> 7]>>,
     CFG_DFBOM |-> <<[DFCALL_ID |-> 1, EXEC_ORDER |-> 1, FTYPE_ID |-> 1, FELEM_ID |-> 2],
                     [DFCALL_ID |-> 5, EXEC_ORDER |-> 1, FTYPE_ID |-> 7, FELEM_ID |-> 5]>>,
     CFG_ERFRAG |-> <<[ERFRAG_ID |-> 11, ERFRAG_CODE |-> <<"S", "N">>,
                       ERFRAG_SOURCE |-> <<".", "/", "S", "U", "M">>, ERFRAG_DEPENDS |-> <<>>],
                      [ERFRAG_ID |-> 12, ERFRAG_CODE |-> <<"C", "N">>,
                       ERFRAG_SOURCE |-> <<".", "/", "S", "U", "M">>, ERFRAG_DEPENDS |-> <<>>]>>,
     CFG_ERRULE |-> <<[ERRULE_ID |-> 100, ERRULE_CODE |-> "SAME_A1", ERRULE_DESC |-> "SAME_A1",
                       RESOLVE |-> "Yes", RELATE |-> "No",
                       REF_SCORE |-> 10, RTYPE_ID |-> 1, QUAL_ERFRAG_CODE |-> <<"S", "N">>,
                       DISQ_ERFRAG_CODE |-> <<>>, ERRULE_TIER |-> 10]>>,
     CFG_GENERIC_THRESHOLD |-> <<[GPLAN_ID |-> 1, BEHAVIOR |-> <<"F", "1">>, FTYPE_ID |-> 0,
                                  CANDIDATE_CAP |-> 10, SCORING_CAP |-> 10, SEND_TO_REDO |-> "Yes"],
                                 [GPLAN_ID |-> 1, BEHAVIOR |-> <<"F", "M">>, FTYPE_ID |-> 0,
                                  CANDIDATE_CAP |-> 50, SCORING_CAP |-> 50, SEND_TO_REDO |-> "Yes"]>>,
     \* the keys XXX_DFCALL and XXX_DFBOM of do_setDistinct: absent
     XXX |-> <<>>]

(***************************************************************************)
(* The session: one command at a time, each run to completion.             *)
(***************************************************************************)
Init ==
    /\ cfgData = shippedConfig
    /\ configUpdated = FALSE
    /\ last = [cmd |-> "loadConfig", parm |-> <<>>, msg |-> "", usedIn |-> <<>>, printed |-> <<>>]
    /\ nCmds = 0
    /\ files = NoFiles
    /\ scanState = IdleScan
    /\ defaultConfig = dump(cfgData)

\* cmdloop catches TypeError and goes on; a ValueError or KeyError that a handler lets out
\* ends the loop, and a handler that does not return never gives the prompt back
Stopped == last.msg \in {"ValueError", "KeyError", "FileNotFoundError", "does not return"}

\* one command: the handler's result becomes the document; while a handler is in its
\* dependency scan no other command is read; a save that the configuration manager took
\* becomes the default configuration and clears configUpdated
Run(cmd, parm, r) ==
    /\ nCmds < MaxCmds
    /\ ~Stopped
    /\ \/ scanState.pc = "idle"
       \/ (scanState.pc \in {"done", "invalid"} /\ cmd = scanState.cmd /\ parm = scanState.parm)
    /\ cfgData' = r.cfg
    /\ configUpdated' = IF "saved" \in DOMAIN r THEN FALSE ELSE (configUpdated \/ r.upd)
    /\ last' = [cmd |-> cmd, parm |-> parm, msg |-> r.msg,
                usedIn |-> IF "usedIn" \in DOMAIN r THEN r.usedIn ELSE <<>>,
                printed |-> IF "printed" \in DOMAIN r THEN r.printed ELSE <<r.msg>>]
    /\ nCmds' = nCmds + 1
    /\ files' = IF "files" \in DOMAIN r THEN r.files ELSE files
    /\ scanState' = IdleScan
    /\ defaultConfig' = IF "saved" \in DOMAIN r THEN r.saved ELSE defaultConfig

Element(code, expressed, compared) == [ELEMENT |-> code, EXPRESSED |-> expressed, COMPARED |-> compared]

FeatureParm(feature, hasID, id, class, behavior, sfunc, efunc, cfunc, elems) ==
    [FEATURE |-> feature, hasID |-> hasID, ID |-> id, CLASS |-> class, BEHAVIOR |-> behavior,
     STANDARDIZE |-> sfunc, EXPRESSION |-> efunc, COMPARISON |-> cfunc, ELEMENTLIST |-> elems]

AttributeParm(attribute, hasID, id, class, feature, element) ==
    [ATTRIBUTE |-> attribute, hasID |-> hasID, ID |-> id, CLASS |-> class, FEATURE |-> feature,
     ELEMENT |-> element]

CallParm(feature, element, function, hasExecOrder, execOrder, hasID, id) ==
    [FEATURE |-> feature, ELEMENT |-> element, FUNCTION |-> function, hasExecOrder |-> hasExecOrder,
     EXECORDER |-> execOrder, hasID |-> hasID, ID |-> id]

BomEntry(feature, element, featureLink) ==
    [FEATURE |-> feature, ELEMENT |-> element, FEATURELINK |-> featureLink]

ExpressionCallParm(feature, element, function, hasExecOrder, execOrder, hasID, id, efeat, elems) ==
    [FEATURE |-> feature, ELEMENT |-> element, FUNCTION |-> function, hasExecOrder |-> hasExecOrder,
     EXECORDER |-> execOrder, hasID |-> hasID, ID |-> id, EXPRESSIONFEATURE |-> efeat,
     ELEMENTLIST |-> elems]

ComparisonParm(feature, comparison, elems) ==
    [FEATURE |-> feature, COMPARISON |-> comparison, ELEMENTLIST |-> elems]

FeatureElementParm(feature, element) == [FEATURE |-> feature, ELEMENT |-> element]

DataSourceParm(code, hasID, id) == [DATASOURCE |-> code, hasID |-> hasID, ID |-> id]

ElementParm(code, hasID, id) == [ELEMENT |-> code, hasID |-> hasID, ID |-> id]

FeatureElementIDParm(feature, element, hasID, id) ==
    [FEATURE |-> feature, ELEMENT |-> element, hasID |-> hasID, ID |-> id]

FuncParm(function, hasID, id, connectStr) ==
    [FUNCTION |-> function, hasID |-> hasID, ID |-> id, CONNECTSTR |-> connectStr]

FragmentParm(fragment, hasID, id, hasSource, source) ==
    [FRAGMENT |-> fragment, hasID |-> hasID, ID |-> id, hasSource |-> hasSource, SOURCE |-> source]

RuleParm(rule, hasID, id, fragment, disqualifier) ==
    [RULE |-> rule, hasID |-> hasID, ID |-> id, FRAGMENT |-> fragment, DISQUALIFIER |-> disqualifier,
     RESOLVE |-> "Yes", RELATE |-> "No", REF_SCORE |-> 8, RTYPE_ID |-> 1, TIER |-> 0, DESC |-> ""]

ThresholdParm(plan, behavior, hasFeature, feature) ==
    [PLAN |-> plan, BEHAVIOR |-> behavior, hasFeature |-> hasFeature, FEATURE |-> feature,
     CANDIDATECAP |-> 10, SCORINGCAP |-> 10, SENDTOREDO |-> "YES"]

(***************************************************************************)
(* The commands, each drawing its argument from a set of arguments.        *)
(***************************************************************************)
DeleteFeature(args) ==
    \E arg \in args : Run("deleteFeature", arg, do_deleteFeature(cfgData, arg))

AddFeature(args) ==
    \E arg \in args : Run("addFeature", arg, do_addFeature(cfgData, arg))

AddAttribute(args) ==
    \E arg \in args : Run("addAttribute", arg, do_addAttribute(cfgData, arg))

AddStandardizeCall(args) ==
    \E arg \in args : Run("addStandardizeCall", arg, do_addStandardizeCall(cfgData, arg))

AddExpressionCall(args) ==
    \E arg \in args : Run("addExpressionCall", arg, do_addExpressionCall(cfgData, arg))

AddFeatureComparison(args) ==
    \E arg \in args : Run("addFeatureComparison", arg, do_addFeatureComparison(cfgData, arg))

AddFeatureComparisonElement(args) ==
    \E arg \in args :
        Run("addFeatureComparisonElement", arg, do_addFeatureComparisonElement(cfgData, arg))

AddFeatureDistinctCallElement(args) ==
    \E arg \in args :
        Run("addFeatureDistinctCallElement", arg, do_addFeatureDistinctCallElement(cfgData, arg))

DeleteFeatureComparison(args) ==
    \E arg \in args : Run("deleteFeatureComparison", arg, do_deleteFeatureComparison(cfgData, arg))

DeleteFeatureDistinctCall(args) ==
    \E arg \in args : Run("deleteFeatureDistinctCall", arg, do_deleteFeatureDistinctCall(cfgData, arg))

DeleteExpressionCall(args) ==
    \E arg \in args : Run("deleteExpressionCall", arg, do_deleteExpressionCall(cfgData, arg))

SetDistinct(args) ==
    \E arg \in args : Run("setDistinct", arg, do_setDistinct(cfgData, arg))

AddDataSource(args) ==
    \E arg \in args : Run("addDataSource", arg, do_addDataSource(cfgData, arg))

DeleteDataSource(args) ==
    \E arg \in args : Run("deleteDataSource", arg, do_deleteDataSource(cfgData, arg))

AddElement(args) ==
    \E arg \in args : Run("addElement", arg, do_addElement(cfgData, arg))

DeleteElement(args) ==
    \E arg \in args : Run("deleteElement", arg, do_deleteElement(cfgData, arg))

AddElementToFeature(args) ==
    \E arg \in args : Run("addElementToFeature", arg, do_addElementToFeature(cfgData, arg))

DeleteElementFromFeature(args) ==
    \E arg \in args : Run("deleteElementFromFeature", arg, do_deleteElementFromFeature(cfgData, arg))

AddStandardizeFunc(args) ==
    \E arg \in args : Run("addStandardizeFunc", arg, do_addStandardizeFunc(cfgData, arg))

AddExpressionFunc(args) ==
    \E arg \in args : Run("addExpressionFunc", arg, do_addExpressionFunc(cfgData, arg))

AddComparisonFunc(args) ==
    \E arg \in args : Run("addComparisonFunc", arg, do_addComparisonFunc(cfgData, arg))

AddFragment(args) ==
    \E arg \in args : Run("addFragment", arg, do_addFragment(cfgData, arg))

AddRule(args) ==
    \E arg \in args : Run("addRule", arg, do_addRule(cfgData, arg))

AddGenericThreshold(args) ==
    \E arg \in args : Run("addGenericThreshold", arg, do_addGenericThreshold(cfgData, arg))

(***************************************************************************)
(* Sessions around do_deleteFeature: features are added with and without   *)
(* calls, attributes and calls are attached to them (an expression call of *)
(* NAME that reads an element of SSN or TEST_ID, more comparison and       *)
(* distinct BOM rows), distinct processing is switched, features are       *)
(* deleted.                                                                *)
(***************************************************************************)
CascadeFeatures ==
    {"NAME", "ADDRESS", "PHONE", "DOB", "REL_LINK", "REL_ANCHOR", "REL_POINTER", "SSN", "TEST_ID", "ssn"}

CascadeAddFeatureArgs ==
    {FeatureParm("TEST_ID", FALSE, 0, "", <<"F", "1", "E">>, "PARSE_ID", "EXPRESS_ID", "EXACT_COMP",
                 <<Element("ID_NUM", "Yes", "Yes"), Element("EMAIL_KEY", "No", "No")>>),
     FeatureParm("test_id", TRUE, 7, "", <<>>, "", "", "", <<Element("ID_NUM", "No", "No")>>),
     FeatureParm("DOB", TRUE, 3, "OTHER", <<"F", "M", "E">>, "", "", "exact_comp",
                 <<Element("DATE", "No", "Yes")>>)}

CascadeAttributeArgs ==
    {AttributeParm("TEST_NUMBER", FALSE, 0, "IDENTIFIER", "TEST_ID", "ID_NUM"),
     AttributeParm("SSN_LAST4", TRUE, 1202, "", "ssn", "id_num")}

CascadeExpressionArgs ==
    {ExpressionCallParm("NAME", "", "EXPRESS_ID", TRUE, 2, FALSE, 0, "SSN",
                        <<BomEntry("SSN", "ID_NUM", ""), BomEntry("", "FULL_NAME", "parent")>>),
     ExpressionCallParm("TEST_ID", "", "EXPRESS_ID", TRUE, 5, TRUE, 8, "",
                        <<BomEntry("NAME", "FULL_NAME", "")>>)}

CascadeComparisonArgs == {ComparisonParm("ssn", "EXACT_COMP", <<[ELEMENT |-> "ID_NUM"]>>)}

CascadeElementArgs == {FeatureElementParm("SSN", "EMAIL_KEY"), FeatureElementParm("TEST_ID", "FULL_NAME")}

NextCascade ==
    \/ DeleteFeature(CascadeFeatures)
    \/ AddFeature(CascadeAddFeatureArgs)
    \/ AddAttribute(CascadeAttributeArgs)
    \/ AddExpressionCall(CascadeExpressionArgs)
    \/ AddFeatureComparison(CascadeComparisonArgs)
    \/ AddFeatureComparisonElement(CascadeElementArgs)
    \/ AddFeatureDistinctCallElement(CascadeElementArgs)
    \/ SetDistinct({"off", "ON"})

SpecCascade == Init /\ [][NextCascade]_vars

(***************************************************************************)
(* Sessions of add commands: each is given without an ID (twice over, so   *)
(* that the second add finds the table's maximum at the seed), with the ID *)
(* of a shipped row, and with an ID below the seed that no row has.        *)
(***************************************************************************)
OneElement == <<Element("ID_NUM", "No", "No")>>

SUM == <<".", "/", "S", "U", "M">>

AddIDDataSourceArgs ==
    {DataSourceParm("CUSTOMER", FALSE, 0), DataSourceParm("WATCHLIST", FALSE, 0),
     DataSourceParm("VENDOR", TRUE, 1), DataSourceParm("VENDOR", TRUE, 5)}

AddIDFeatureArgs ==
    {FeatureParm("TEST_ID", FALSE, 0, "", <<>>, "", "", "", OneElement),
     FeatureParm("PASSPORT", FALSE, 0, "", <<>>, "", "", "", OneElement),
     FeatureParm("LICENSE", TRUE, 7, "", <<>>, "", "", "", OneElement),
     FeatureParm("LICENSE", TRUE, 5, "", <<>>, "", "", "", OneElement)}

AddIDAttributeArgs ==
    {AttributeParm("TEST_NUMBER", FALSE, 0, "", "", ""), AttributeParm("PASSPORT_NUMBER", FALSE, 0, "", "", ""),
     AttributeParm("LICENSE_NUMBER", TRUE, 1201, "", "", ""), AttributeParm("LICENSE_NUMBER", TRUE, 5, "", "", "")}

AddIDElementArgs ==
    {ElementParm("PLACE", FALSE, 0), ElementParm("STATE", FALSE, 0),
     ElementParm("COUNTRY", TRUE, 5), ElementParm("COUNTRY", TRUE, 6)}

AddIDFragmentArgs ==
    {FragmentParm(<<"A">>, FALSE, 0, TRUE, SUM), FragmentParm(<<"B">>, FALSE, 0, TRUE, SUM),
     FragmentParm(<<"C">>, TRUE, 11, TRUE, SUM), FragmentParm(<<"C">>, TRUE, 5, TRUE, SUM)}

AddIDRuleArgs ==
    {RuleParm("SAME_B", FALSE, 0, <<"S", "N">>, <<>>), RuleParm("SAME_C", TRUE, 100, <<"S", "N">>, <<>>),
     RuleParm("SAME_C", TRUE, 5, <<"S", "N">>, <<>>)}

AddIDFuncArgs ==
    {FuncParm("FUNC_A", FALSE, 0, "g2FuncA"), FuncParm("FUNC_B", FALSE, 0, "g2FuncB"),
     FuncParm("FUNC_C", TRUE, 4, "g2FuncC"), FuncParm("FUNC_C", TRUE, 3, "g2FuncC"),
     FuncParm("FUNC_C", TRUE, 2, "g2FuncC"), FuncParm("FUNC_C", TRUE, 5, "g2FuncC")}

AddIDStandardizeCallArgs ==
    {CallParm("SSN", "", "PARSE_ID", TRUE, 2, FALSE, 0), CallParm("NAME", "", "PARSE_NAME", TRUE, 2, TRUE, 4),
     CallParm("NAME", "", "PARSE_NAME", TRUE, 3, TRUE, 5)}

AddIDExpressionCallArgs ==
    {ExpressionCallParm("SSN", "", "EXPRESS_ID", TRUE, 2, FALSE, 0, "", <<BomEntry("", "ID_NUM", "")>>),
     ExpressionCallParm("SSN", "", "EXPRESS_ID", TRUE, 3, FALSE, 0, "", <<BomEntry("", "ID_NUM", "")>>),
     ExpressionCallParm("NAME", "", "EXPRESS_ID", TRUE, 4, TRUE, 3, "", <<BomEntry("", "FULL_NAME", "")>>),
     ExpressionCallParm("NAME", "", "EXPRESS_ID", TRUE, 5, TRUE, 5, "", <<BomEntry("", "FULL_NAME", "")>>)}

NextAdd ==
    \/ AddDataSource(AddIDDataSourceArgs)
    \/ AddFeature(AddIDFeatureArgs)
    \/ AddAttribute(AddIDAttributeArgs)
    \/ AddElement(AddIDElementArgs)
    \/ AddFragment(AddIDFragmentArgs)
    \/ AddRule(AddIDRuleArgs)
    \/ AddStandardizeFunc(AddIDFuncArgs)
    \/ AddExpressionFunc(AddIDFuncArgs)
    \/ AddComparisonFunc(AddIDFuncArgs)
    \/ AddStandardizeCall(AddIDStandardizeCallArgs)
    \/ AddExpressionCall(AddIDExpressionCallArgs)

SpecAdd == Init /\ [][NextAdd]_vars

(***************************************************************************)
(* deleteFeature: the cascade, its scope, the absent and the locked codes  *)
(***************************************************************************)
\* the FTYPE_IDs of the CFG_FTYPE rows of cfg carrying the code
FeatureIDs(cfg, code) ==
    {cfg.CFG_FTYPE[i].FTYPE_ID : i \in {j \in 1..Len(cfg.CFG_FTYPE) : cfg.CFG_FTYPE[j].FTYPE_CODE = code}}

\* the ids of the calls of a call table that the features ids own
OwnedCalls(cfg, callTable, idField, ids) ==
    {cfg[callTable][i][idField] : i \in {j \in 1..Len(cfg[callTable]) : cfg[callTable][j].FTYPE_ID \in ids}}

FeatureIDTables ==
    {"CFG_FBOM", "CFG_SFCALL", "CFG_EFCALL", "CFG_EFBOM", "CFG_CFCALL", "CFG_CFBOM", "CFG_DFCALL", "CFG_DFBOM"}

CascadeTables == FeatureIDTables \cup {"CFG_FTYPE", "CFG_ATTR"}

\* the step is the command cmd
Step(cmd) == nCmds' = nCmds + 1 /\ last'.cmd = cmd

\* row r of the document cfg references the feature with the code and ids, or one of its calls
ReferencesFeature(cfg, r, code, ids) ==
    \/ "FTYPE_ID" \in DOMAIN r /\ r.FTYPE_ID \in ids
    \/ "FTYPE_CODE" \in DOMAIN r /\ r.FTYPE_CODE = code
    \/ "EFCALL_ID" \in DOMAIN r /\ r.EFCALL_ID \in OwnedCalls(cfg, "CFG_EFCALL", "EFCALL_ID", ids)
    \/ "CFCALL_ID" \in DOMAIN r /\ r.CFCALL_ID \in OwnedCalls(cfg, "CFG_CFCALL", "CFCALL_ID", ids)
    \/ "DFCALL_ID" \in DOMAIN r /\ r.DFCALL_ID \in OwnedCalls(cfg, "CFG_DFCALL", "DFCALL_ID", ids)

\* C1: when deleteFeature is given the code of an existing feature that is not locked, the
\* document after the command has no row of CFG_FBOM, CFG_SFCALL, CFG_EFCALL, CFG_EFBOM,
\* CFG_CFCALL, CFG_CFBOM, CFG_DFCALL or CFG_DFBOM with the FTYPE_ID of the feature, no CFG_ATTR
\* row with its FTYPE_CODE, and no CFG_FTYPE row with its code.
C1_DeleteFeatureLeavesNoRow ==
    [][(Step("deleteFeature") /\ upper(last'.parm) \notin lockedFeatureList
            /\ FeatureIDs(cfgData, upper(last'.parm)) # {})
       => LET code == upper(last'.parm)
              ids == FeatureIDs(cfgData, code)
          IN /\ \A t \in FeatureIDTables :
                    \A i \in 1..Len(cfgData'[t]) : cfgData'[t][i].FTYPE_ID \notin ids
             /\ \A i \in 1..Len(cfgData'.CFG_ATTR) : cfgData'.CFG_ATTR[i].FTYPE_CODE # code
             /\ FeatureIDs(cfgData', code) = {}]_vars

\* SSN, which the loaded document references from each of the nine tables, was deleted
C1_Witness ==
    /\ nCmds = 1 /\ last.cmd = "deleteFeature" /\ upper(last.parm) = "SSN"
    /\ last.msg = "Successfully deleted!"
    /\ \A t \in FeatureIDTables :
           \E i \in 1..Len(shippedConfig[t]) : shippedConfig[t][i].FTYPE_ID \in FeatureIDs(shippedConfig, "SSN")
    /\ \E i \in 1..Len(shippedConfig.CFG_ATTR) : shippedConfig.CFG_ATTR[i].FTYPE_CODE = "SSN"

\* C2: deleteFeature leaves every row of CFG_FTYPE, CFG_FBOM, CFG_ATTR and the call and BOM
\* tables that references neither the feature (by FTYPE_ID or FTYPE_CODE) nor a call the
\* feature owns exactly as it was and in the same order, so the rows of every other feature
\* are the same before and after.
C2_DeleteFeatureIsScoped ==
    [][Step("deleteFeature")
       => LET code == upper(last'.parm)
              ids == FeatureIDs(cfgData, code)
              Other(r) == ~ReferencesFeature(cfgData, r, code, ids)
          IN \A t \in CascadeTables : SelectSeq(cfgData'[t], Other) = SelectSeq(cfgData[t], Other)]_vars

\* TEST_ID, whose expression call holds a BOM row of NAME, was deleted while rows of other
\* features stay in every one of the tables
C2_Witness ==
    /\ last.cmd = "deleteFeature" /\ upper(last.parm) = "TEST_ID" /\ last.msg = "Successfully deleted!"
    /\ \A t \in CascadeTables : Len(cfgData[t]) > 0
    /\ \E i \in 1..Len(cfgData.CFG_FTYPE) : cfgData.CFG_FTYPE[i].FTYPE_CODE = "SSN"

C3_WitnessNeverAdded ==
    /\ nCmds = 1 /\ last.cmd = "deleteFeature" /\ last.msg = "Feature not found"
    /\ ~configUpdated /\ upper(last.parm) = "TEST_ID"

C4_LockedFeatureIsKept ==
    [][(Step("deleteFeature")
            /\ upper(last'.parm) \in {"NAME", "ADDRESS", "PHONE", "DOB", "REL_LINK", "REL_ANCHOR", "REL_POINTER"})
       => /\ cfgData' = cfgData
          /\ configUpdated' = configUpdated
          /\ last'.msg = "is a locked feature"]_vars

\* the delete of DOB, which a command had added with an attribute of its rows, was rejected
C4_Witness ==
    /\ last.cmd = "deleteFeature" /\ last.parm = "DOB" /\ last.msg = "is a locked feature"
    /\ FeatureIDs(cfgData, "DOB") # {}


(***************************************************************************)
(* The surrogate IDs of the add commands                                   *)
(***************************************************************************)
\* the table an add command appends to, the field of its surrogate ID, and its seed
AddTarget ==
    [addDataSource |-> [table |-> "CFG_DSRC", id |-> "DSRC_ID", seed |-> Seed],
     addFeature |-> [table |-> "CFG_FTYPE", id |-> "FTYPE_ID", seed |-> Seed],
     addAttribute |-> [table |-> "CFG_ATTR", id |-> "ATTR_ID", seed |-> AttrSeed],
     addElement |-> [table |-> "CFG_FELEM", id |-> "FELEM_ID", seed |-> Seed],
     addFragment |-> [table |-> "CFG_ERFRAG", id |-> "ERFRAG_ID", seed |-> Seed],
     addRule |-> [table |-> "CFG_ERRULE", id |-> "ERRULE_ID", seed |-> Seed],
     addStandardizeFunc |-> [table |-> "CFG_SFUNC", id |-> "SFUNC_ID", seed |-> Seed],
     addExpressionFunc |-> [table |-> "CFG_EFUNC", id |-> "EFUNC_ID", seed |-> Seed],
     addComparisonFunc |-> [table |-> "CFG_CFUNC", id |-> "CFUNC_ID", seed |-> Seed],
     addStandardizeCall |-> [table |-> "CFG_SFCALL", id |-> "SFCALL_ID", seed |-> Seed],
     addExpressionCall |-> [table |-> "CFG_EFCALL", id |-> "EFCALL_ID", seed |-> Seed]]

AddCommands == DOMAIN AddTarget

\* the step is one of the commands
StepIn(cmds) == nCmds' = nCmds + 1 /\ last'.cmd \in cmds

IDsOf(rows, field) == {rows[i][field] : i \in 1..Len(rows)}

\* the largest ID of the table, 0 for an empty one
CurrentMax(rows, field) ==
    LET ids == IDsOf(rows, field) \cup {0} IN CHOOSE m \in ids : \A x \in ids : x <= m

UniqueIDs(rows, field) ==
    \A i, j \in 1..Len(rows) : rows[i][field] = rows[j][field] => i = j

\* the command appended one row to its table and left the rows before it as they were
AppendedOne(cmd) ==
    LET t == AddTarget[cmd].table
    IN Len(cfgData'[t]) = Len(cfgData[t]) + 1 /\ SubSeq(cfgData'[t], 1, Len(cfgData[t])) = cfgData[t]

\* the surrogate ID of the last row of the command's table after the step
StoredID(cmd) ==
    LET t == AddTarget[cmd].table IN cfgData'[t][Len(cfgData'[t])][AddTarget[cmd].id]

CheckingAddCommands ==
    {"addDataSource", "addFeature", "addAttribute", "addFragment", "addRule", "addExpressionCall"}

\* what holds of C5: the six commands that look for the given ID reject it when a row has it
C5_CheckingCommandsReject ==
    [][(StepIn(CheckingAddCommands) /\ last'.parm.hasID
            /\ last'.parm.ID \in IDsOf(cfgData[AddTarget[last'.cmd].table], AddTarget[last'.cmd].id))
       => cfgData' = cfgData /\ configUpdated' = configUpdated]_vars

\* addElement was given the FELEM_ID of the shipped element ID_NUM and was accepted
C5_Witness ==
    /\ last.cmd = "addElement" /\ last.parm.hasID /\ last.msg = "Successfully added!"
    /\ \E i, j \in 1..Len(cfgData.CFG_FELEM) :
           /\ i < j
           /\ cfgData.CFG_FELEM[i].FELEM_ID = cfgData.CFG_FELEM[j].FELEM_ID
           /\ cfgData.CFG_FELEM[i].FELEM_CODE = "ID_NUM"

\* the commands of C6: every add command that takes no ID as a request for the next one
AutoIDCommands == AddCommands \ {"addRule"}

IDRefusals ==
    {"Data source ID already exists!", "Feature id already exists!", "Attribute ID already exists!",
     "Fragment ID already exists!", "Rule ID already exists!", "Element id already exists!"}

RefAttributeArgs ==
    {AttributeParm("SSN_LAST4", FALSE, 0, "IDENTIFIER", "ssn", "id_num"),
     AttributeParm("SSN_LAST4", FALSE, 0, "IDENTIFIER", "TAX_ID", "ID_NUM"),
     AttributeParm("SSN_LAST4", FALSE, 0, "IDENTIFIER", "SSN", "ID_LAST4"),
     AttributeParm("SSN_HASH", FALSE, 0, "IDENTIFIER", "SSN", "<PREHASHED>"),
     AttributeParm("SSN_FROM", FALSE, 0, "IDENTIFIER", "TAX_ID", "USED_FROM_DT")}

RefStandardizeCallArgs ==
    {CallParm("SSN", "", "PARSE_ID", TRUE, 2, FALSE, 0), CallParm("TAX_ID", "", "PARSE_ID", TRUE, 2, FALSE, 0),
     CallParm("SSN", "", "PARSE_TAX", TRUE, 2, FALSE, 0), CallParm("", "ID_LAST4", "PARSE_ID", TRUE, 2, FALSE, 0),
     CallParm("", "EMAIL_KEY", "PARSE_ID", TRUE, 1, FALSE, 0)}

RefExpressionCallArgs ==
    {ExpressionCallParm("SSN", "", "EXPRESS_ID", TRUE, 2, FALSE, 0, "NAME",
                        <<BomEntry("NAME", "FULL_NAME", "")>>),
     ExpressionCallParm("TAX_ID", "", "EXPRESS_ID", TRUE, 2, FALSE, 0, "", <<BomEntry("", "ID_NUM", "")>>),
     ExpressionCallParm("NAME", "", "EXPRESS_TAX", TRUE, 2, FALSE, 0, "", <<BomEntry("", "ID_NUM", "")>>),
     ExpressionCallParm("NAME", "", "EXPRESS_ID", TRUE, 3, FALSE, 0, "TAX_ID", <<BomEntry("", "ID_NUM", "")>>),
     ExpressionCallParm("NAME", "", "EXPRESS_ID", TRUE, 4, FALSE, 0, "", <<BomEntry("TAX_ID", "ID_NUM", "")>>),
     ExpressionCallParm("NAME", "", "EXPRESS_ID", TRUE, 5, FALSE, 0, "", <<BomEntry("SSN", "ID_LAST4", "")>>),
     ExpressionCallParm("NAME", "", "EXPRESS_ID", TRUE, 6, FALSE, 0, "", <<BomEntry("ssn", "id_num", "")>>)}

RefComparisonArgs ==
    {ComparisonParm("SSN", "EXACT_COMP", <<[ELEMENT |-> "ID_NUM"]>>),
     ComparisonParm("TAX_ID", "EXACT_COMP", <<[ELEMENT |-> "ID_NUM"]>>),
     ComparisonParm("SSN", "TAX_COMP", <<[ELEMENT |-> "ID_NUM"]>>),
     ComparisonParm("SSN", "EXACT_COMP", <<[ELEMENT |-> "ID_NUM"], [ELEMENT |-> "ID_LAST4"]>>)}

RefComparisonElementArgs ==
    {FeatureElementParm("SSN", "EMAIL_KEY"), FeatureElementParm("TAX_ID", "EMAIL_KEY"),
     FeatureElementParm("SSN", "ID_LAST4")}

RefRuleArgs ==
    {RuleParm("SAME_B", TRUE, 101, <<"C", "N">>, <<"S", "N">>), RuleParm("SAME_C", TRUE, 102, <<"X", "N">>, <<>>),
     RuleParm("SAME_D", TRUE, 103, <<"S", "N">>, <<"X", "N">>)}

RefThresholdArgs ==
    {ThresholdParm("SEARCH", <<"F", "1", "E", "S">>, TRUE, "SSN"),
     ThresholdParm("SEARCH", <<"F", "1", "E", "S">>, TRUE, "TAX_ID"),
     ThresholdParm("SEARCH", <<"F", "1", "E", "S">>, TRUE, "ssn"),
     ThresholdParm("SEARCH", <<"F", "1">>, FALSE, "")}

RefFeatureArgs ==
    {FeatureParm("TAX_ID", FALSE, 0, "OTHER", <<"F", "1", "E", "S">>, "PARSE_ID", "EXPRESS_ID", "EXACT_COMP",
                 <<Element("ID_NUM", "Yes", "Yes")>>),
     FeatureParm("PASSPORT", FALSE, 0, "IDENTIFIER", <<>>, "", "", "", OneElement),
     FeatureParm("PASSPORT", FALSE, 0, "", <<>>, "PARSE_TAX", "", "", OneElement),
     FeatureParm("PASSPORT", FALSE, 0, "", <<>>, "", "EXPRESS_TAX", "", <<Element("ID_NUM", "Yes", "No")>>),
     FeatureParm("PASSPORT", FALSE, 0, "", <<>>, "", "", "TAX_COMP", <<Element("ID_NUM", "No", "Yes")>>)}

NextRef ==
    \/ AddAttribute(RefAttributeArgs)
    \/ AddStandardizeCall(RefStandardizeCallArgs)
    \/ AddExpressionCall(RefExpressionCallArgs)
    \/ AddFeatureComparison(RefComparisonArgs)
    \/ AddFeatureComparisonElement(RefComparisonElementArgs)
    \/ AddRule(RefRuleArgs)
    \/ AddGenericThreshold(RefThresholdArgs)
    \/ AddFeature(RefFeatureArgs)
    \/ AddElement({ElementParm("ID_LAST4", FALSE, 0)})
    \/ DeleteFeature({"SSN"})

SpecRef == Init /\ [][NextRef]_vars

\* a row of the table carries the code
HasCode(cfg, table, field, code) == \E i \in 1..Len(cfg[table]) : cfg[table][i][field] = code

\* a code is named ("" is the absent one) and no row of its table carries it
Dangling(cfg, table, field, code) == code # "" /\ ~HasCode(cfg, table, field, code)

\* the same for a fragment code, a sequence of characters
DanglingFragment(cfg, code) == code # <<>> /\ ~HasCode(cfg, "CFG_ERFRAG", "ERFRAG_CODE", code)

DanglingFeature(cfg, code) == Dangling(cfg, "CFG_FTYPE", "FTYPE_CODE", code)

DanglingElement(cfg, code) == Dangling(cfg, "CFG_FELEM", "FELEM_CODE", code)

\* the command names, in the letters its handler looks up, a code that has no row; reserved
\* is the set of element codes addAttribute may name without a row
NamesMissingCode(cfg, cmd, p, reserved) ==
    CASE cmd = "addAttribute" ->
            \/ DanglingFeature(cfg, upper(p.FEATURE))
            \/ upper(p.ELEMENT) \notin reserved /\ DanglingElement(cfg, upper(p.ELEMENT))
      [] cmd = "addStandardizeCall" ->
            \/ DanglingFeature(cfg, upper(p.FEATURE)) \/ DanglingElement(cfg, upper(p.ELEMENT))
            \/ Dangling(cfg, "CFG_SFUNC", "SFUNC_CODE", upper(p.FUNCTION))
      [] cmd = "addExpressionCall" ->
            \/ DanglingFeature(cfg, upper(p.FEATURE)) \/ DanglingElement(cfg, upper(p.ELEMENT))
            \/ Dangling(cfg, "CFG_EFUNC", "EFUNC_CODE", upper(p.FUNCTION))
            \/ DanglingFeature(cfg, upper(p.EXPRESSIONFEATURE))
            \/ \E k \in 1..Len(p.ELEMENTLIST) :
                   \/ DanglingFeature(cfg, upper(p.ELEMENTLIST[k].FEATURE))
                   \/ DanglingElement(cfg, upper(p.ELEMENTLIST[k].ELEMENT))
      [] cmd = "addFeatureComparison" ->
            \/ DanglingFeature(cfg, upper(p.FEATURE))
            \/ Dangling(cfg, "CFG_CFUNC", "CFUNC_CODE", upper(p.COMPARISON))
            \/ \E k \in 1..Len(p.ELEMENTLIST) : DanglingElement(cfg, upper(p.ELEMENTLIST[k].ELEMENT))
      [] cmd = "addFeatureComparisonElement" ->
            DanglingFeature(cfg, upper(p.FEATURE)) \/ DanglingElement(cfg, upper(p.ELEMENT))
      [] cmd = "addRule" ->
            DanglingFragment(cfg, p.FRAGMENT) \/ DanglingFragment(cfg, p.DISQUALIFIER)
      [] cmd = "addGenericThreshold" -> p.hasFeature /\ ~HasCode(cfg, "CFG_FTYPE", "FTYPE_CODE", p.FEATURE)
      [] cmd = "addFeature" ->
            \/ Dangling(cfg, "CFG_FCLASS", "FCLASS_CODE", upper(p.CLASS))
            \/ Dangling(cfg, "CFG_SFUNC", "SFUNC_CODE", upper(p.STANDARDIZE))
            \/ Dangling(cfg, "CFG_EFUNC", "EFUNC_CODE", upper(p.EXPRESSION))
            \/ Dangling(cfg, "CFG_CFUNC", "CFUNC_CODE", upper(p.COMPARISON))

RefCommands ==
    {"addAttribute", "addStandardizeCall", "addExpressionCall", "addFeatureComparison",
     "addFeatureComparisonElement", "addRule", "addGenericThreshold", "addFeature"}

\* the messages that turn a reference down
RefRefusals ==
    {"Invalid feature", "Invalid element", "Invalid function", "Invalid expression feature",
     "Invalid BOM feature", "Invalid BOM element", "Feature not found!", "Element not found!",
     "Invalid comparison function code", "Invalid fragment reference", "Invalid disqualifer reference",
     "is not a valid feature", "is not a valid feature class", "is not a valid standardization function",
     "is not a valid expression function", "is not a valid comparison function"}

\* the element codes that the amended C8 lets addAttribute name without a CFG_FELEM row
ReservedElementCodes == {"<PREHASHED>", "USED_FROM_DT", "USED_THRU_DT", "USAGE_TYPE"}

OrderFeatureArgs ==
    {FeatureParm("TEST_ID", FALSE, 0, "", <<>>, "PARSE_ID", "EXPRESS_ID", "EXACT_COMP",
                 <<Element("ID_NUM", "Yes", "Yes")>>)}

OrderStandardizeCallArgs ==
    {CallParm("SSN", "", "PARSE_ID", TRUE, 1, FALSE, 0), CallParm("SSN", "", "PARSE_NAME", TRUE, 2, FALSE, 0),
     CallParm("", "EMAIL_KEY", "PARSE_ID", TRUE, 1, FALSE, 0)}

OrderExpressionCallArgs ==
    {ExpressionCallParm("SSN", "", "EXPRESS_ID", TRUE, 1, FALSE, 0, "", <<BomEntry("", "ID_NUM", "")>>),
     ExpressionCallParm("SSN", "", "EXPRESS_ID", TRUE, 2, FALSE, 0, "", <<BomEntry("", "ID_NUM", "")>>),
     ExpressionCallParm("", "EMAIL_KEY", "EXPRESS_ID", TRUE, 1, FALSE, 0, "", <<BomEntry("", "EMAIL_KEY", "")>>)}

OrderComparisonArgs ==
    {ComparisonParm("SSN", "EXACT_COMP", <<[ELEMENT |-> "ID_NUM"]>>),
     ComparisonParm("TEST_ID", "EXACT_COMP", <<[ELEMENT |-> "ID_NUM"]>>)}

NextOrder ==
    \/ AddFeature(OrderFeatureArgs)
    \/ AddStandardizeCall(OrderStandardizeCallArgs)
    \/ AddExpressionCall(OrderExpressionCallArgs)
    \/ AddFeatureComparison(OrderComparisonArgs)
    \/ DeleteFeature({"SSN", "TEST_ID"})
    \/ DeleteFeatureComparison({"SSN", "TEST_ID"})
    \/ DeleteFeatureDistinctCall({"SSN", "TEST_ID"})
    \/ DeleteExpressionCall({3, Seed})
    \/ SetDistinct({"OFF", "ON"})

SpecOrder == Init /\ [][NextOrder]_vars

\* the owner of a call: its feature, or its element when the call is element-scoped
CallOwner(call) ==
    <<call.FTYPE_ID, IF "FELEM_ID" \in DOMAIN call THEN call.FELEM_ID ELSE NotApplicable>>

ExecOrdersUnique(calls) ==
    \A i, j \in 1..Len(calls) :
        (CallOwner(calls[i]) = CallOwner(calls[j]) /\ calls[i].EXEC_ORDER = calls[j].EXEC_ORDER) => i = j

C9_ExpressionAndDistinctOrdersUnique ==
    ExecOrdersUnique(cfgData.CFG_EFCALL) /\ ExecOrdersUnique(cfgData.CFG_DFCALL)

\* addFeatureComparison gave SSN, whose shipped comparison call has EXEC_ORDER 1, a second
\* comparison call with EXEC_ORDER 1
C9_Witness ==
    /\ nCmds = 1 /\ last.cmd = "addFeatureComparison" /\ last.msg = "Successfully added!"
    /\ ~ExecOrdersUnique(cfgData.CFG_CFCALL)
    /\ ExecOrdersUnique(shippedConfig.CFG_CFCALL)

(***************************************************************************)
(* Sessions around do_deleteElement: elements are added (one with the ID   *)
(* of a shipped element), put into features and taken out of them,         *)
(* features are added and deleted, elements are deleted.                   *)
(***************************************************************************)
NextElem ==
    \/ AddElement({ElementParm("PLACE", FALSE, 0), ElementParm("COUNTRY", TRUE, 9)})
    \/ DeleteElement({"ID_NUM", "id_num", "EMAIL_KEY", "PLACE", "COUNTRY", "STATE"})
    \/ AddElementToFeature({FeatureElementIDParm("SSN", "EMAIL_KEY", FALSE, 0),
                            FeatureElementIDParm("NAME", "ID_NUM", FALSE, 0),
                            FeatureElementIDParm("SSN", "STATE", TRUE, 9),
                            FeatureElementIDParm("SSN", "STATE", TRUE, 8)})
    \/ DeleteElementFromFeature({FeatureElementParm("SSN", "ID_NUM"), FeatureElementParm("SSN", "EMAIL_KEY")})
    \/ AddFeature({FeatureParm("TEST_ID", FALSE, 0, "", <<>>, "", "", "", OneElement)})
    \/ DeleteFeature({"SSN", "TEST_ID"})

SpecElem == Init /\ [][NextElem]_vars

\* the codes of the features that have a CFG_FBOM row with the element
OwnersOf(cfg, felemID) ==
    {cfg.CFG_FTYPE[j].FTYPE_CODE :
        j \in {k \in 1..Len(cfg.CFG_FTYPE) :
                  \E i \in 1..Len(cfg.CFG_FBOM) : /\ cfg.CFG_FBOM[i].FELEM_ID = felemID
                                                  /\ cfg.CFG_FBOM[i].FTYPE_ID = cfg.CFG_FTYPE[k].FTYPE_ID}}

CopyFragmentParm(currentFragment, newFragment, hasNEWID, newID) ==
    [CURRENTFRAGMENT |-> currentFragment, NEWFRAGMENT |-> newFragment, hasNEWID |-> hasNEWID,
     NEWID |-> newID]

SetFragment(args) ==
    \E arg \in args : Run("setFragment", arg, do_setFragment(cfgData, arg))

CopyFragment(args) ==
    \E arg \in args : Run("copyFragment", arg, do_copyFragment(cfgData, arg))

DeleteFragment(args) ==
    \E arg \in args : Run("deleteFragment", arg, do_deleteFragment(cfgData, arg))

\* ./FRAGMENT[./SN>0 and ./CN>0]
SourceBoth == 
    <<".", "/", "F", "R", "A", "G", "M", "E", "N", "T", "[", ".", "/", "S", "N", ">",
        "0", " ", "a", "n", "d", " ", ".", "/", "C", "N", ">", "0", "]">>
\* FRAGMENT[./SN>0]
SourceAtStart == 
    <<"F", "R", "A", "G", "M", "E", "N", "T", "[", ".", "/", "S", "N", ">", "0",
        "]">>
\* ./FRAGMENT[./CN]
SourceBracket == 
    <<".", "/", "F", "R", "A", "G", "M", "E", "N", "T", "[", ".", "/", "C", "N",
        "]">>
\* ./FRAGMENT[./XX>0]
SourceMissing == 
    <<".", "/", "F", "R", "A", "G", "M", "E", "N", "T", "[", ".", "/", "X", "X", ">",
        "0", "]">>
\* FRAGMENT[./XX>0]
SourceMissingAtStart == 
    <<"F", "R", "A", "G", "M", "E", "N", "T", "[", ".", "/", "X", "X", ">", "0",
        "]">>
\* ./FRAGMENT[./SN>0
SourceOpen == 
    <<".", "/", "F", "R", "A", "G", "M", "E", "N", "T", "[", ".", "/", "S", "N", ">",
        "0">>

FragSources == {SUM, SourceBoth, SourceAtStart, SourceBracket, SourceMissing, SourceMissingAtStart}

FragAddArgs ==
    {FragmentParm(<<"A">>, FALSE, 0, TRUE, s) : s \in FragSources \cup {SourceOpen}}
        \cup {FragmentParm(<<"S", "N">>, FALSE, 0, TRUE, SourceBoth),
              FragmentParm(<<"B">>, TRUE, 5, FALSE, <<>>)}

FragSetArgs ==
    {FragmentParm(<<"C", "N">>, FALSE, 0, TRUE, s) : s \in FragSources}
        \cup {FragmentParm(<<>>, TRUE, 11, TRUE, SUM), FragmentParm(<<>>, TRUE, 11, TRUE, SourceMissing),
              FragmentParm(<<"A">>, FALSE, 0, TRUE, SourceBoth),
              FragmentParm(<<"S", "N">>, FALSE, 0, FALSE, <<>>),
              FragmentParm(<<>>, FALSE, 0, TRUE, SUM)}

FragCopyArgs ==
    {CopyFragmentParm(<<"A">>, <<"B">>, FALSE, 0), CopyFragmentParm(<<"C", "N">>, <<"D">>, TRUE, 5),
     CopyFragmentParm(<<"S", "N">>, <<"C", "N">>, FALSE, 0), CopyFragmentParm(<<"X", "X">>, <<"D">>, FALSE, 0)}

FragDeleteArgs ==
    {FragmentParm(<<"S", "N">>, FALSE, 0, FALSE, <<>>), FragmentParm(<<"A">>, FALSE, 0, FALSE, <<>>),
     FragmentParm(<<>>, TRUE, 12, FALSE, <<>>), FragmentParm(<<>>, FALSE, 0, FALSE, <<>>)}

NextFrag ==
    \/ AddFragment(FragAddArgs)
    \/ SetFragment(FragSetArgs)
    \/ CopyFragment(FragCopyArgs)
    \/ DeleteFragment(FragDeleteArgs)

SpecFrag == Init /\ [][NextFrag]_vars

\* the characters that end a code inside a span: the six the scanner looks for, and the
\* bracket that closes the span
CodeEnds == {"|", " ", "=", ">", "<", ")", "]"}

\* the texts between "FRAGMENT[" and the next "]", in order, from position from on
RECURSIVE SpansFrom(_, _)
SpansFrom(source, from) ==
    LET p == find(source, kwFRAGMENT, from)
        q == find(source, <<"]">>, p + Len(kwFRAGMENT))
    IN IF p = -1 \/ q = -1 THEN <<>>
       ELSE <<slice(source, p + Len(kwFRAGMENT), q + 1)>> \o SpansFrom(source, q + 1)

\* the codes of a span: what follows each "/" up to the character that ends it
RECURSIVE CodesIn(_, _, _, _)
CodesIn(span, k, inCode, code) ==
    IF k > Len(span) THEN <<>>
    ELSE IF span[k] = "/" THEN CodesIn(span, k + 1, TRUE, <<>>)
    ELSE IF ~inCode THEN CodesIn(span, k + 1, FALSE, <<>>)
    ELSE IF span[k] \in CodeEnds THEN <<code>> \o CodesIn(span, k + 1, FALSE, <<>>)
    ELSE CodesIn(span, k + 1, TRUE, code \o <<span[k]>>)

RECURSIVE CodesOfSpans(_)
CodesOfSpans(spans) ==
    IF spans = <<>> THEN <<>> ELSE CodesIn(spans[1], 1, FALSE, <<>>) \o CodesOfSpans(Tail(spans))

\* the fragment codes referenced inside the FRAGMENT[...] spans of a source, in order
ReferencedCodes(source) == CodesOfSpans(SpansFrom(source, 0))

AllExist(cfg, codes) ==
    \A i \in 1..Len(codes) : HasCode(cfg, "CFG_ERFRAG", "ERFRAG_CODE", codes[i])

\* the comma-joined ERFRAG_IDs of the codes
DependsOf(cfg, codes) ==
    join([i \in 1..Len(codes) |-> str(getRecord(cfg, "CFG_ERFRAG", "ERFRAG_CODE", codes[i]).ERFRAG_ID)])

FragmentWrites == {"Successfully added!", "Fragment source updated!"}

\* the row addFragment appended or setFragment looked up
WrittenFragment ==
    IF last'.cmd = "addFragment" THEN cfgData'.CFG_ERFRAG[Len(cfgData'.CFG_ERFRAG)]
    ELSE cfgData'.CFG_ERFRAG[firstIndex(cfgData.CFG_ERFRAG, fragmentSearch(last'.parm).field,
                                        fragmentSearch(last'.parm).value)]

ScannedInFull(source) ==
    /\ find(source, kwFRAGMENT, 0) # 0
    /\ \A i \in 1..Len(SpansFrom(source, 0)) :
           LET span == SpansFrom(source, 0)[i]
           IN CodesIn(span, 1, FALSE, <<>>) = CodesIn(SubSeq(span, 1, Len(span) - 1), 1, FALSE, <<>>)

\* what holds of C11: for a source the scanner reads in full, the stored list is the list of
\* the referenced IDs
C11_DependsOfScannedSource ==
    [][(StepIn({"addFragment", "setFragment"}) /\ last'.msg \in FragmentWrites
            /\ ScannedInFull(last'.parm.SOURCE))
       => /\ AllExist(cfgData, ReferencedCodes(last'.parm.SOURCE))
          /\ WrittenFragment.ERFRAG_DEPENDS = DependsOf(cfgData, ReferencedCodes(last'.parm.SOURCE))]_vars

\* addFragment stored FRAGMENT[./SN>0], which references SN, with no dependency
C11_Witness ==
    /\ last.cmd = "addFragment" /\ last.msg = "Successfully added!" /\ last.parm.SOURCE = SourceAtStart
    /\ ReferencedCodes(SourceAtStart) = << <<"S", "N">> >>
    /\ cfgData.CFG_ERFRAG[Len(cfgData.CFG_ERFRAG)].ERFRAG_DEPENDS = <<>>

\* the refusals that come before the source is read
FragmentEarlyRefusals ==
    {"Fragment already exists!", "Fragment ID already exists!", "A fragment source field is required!",
     "Fragment does not exist!", "Error with argument(s)", "KeyError"}

C12_ScannedMissingReferenceIsRefused ==
    [][StepIn({"addFragment", "setFragment"})
       => /\ last'.msg = "Invalid fragment reference"
              => cfgData' = cfgData /\ configUpdated' = configUpdated
          /\ (last'.parm.hasSource /\ ScannedInFull(last'.parm.SOURCE)
                /\ ~AllExist(cfgData, ReferencedCodes(last'.parm.SOURCE)))
              => /\ cfgData' = cfgData
                 /\ last'.msg \in FragmentEarlyRefusals \cup {"Invalid fragment reference"}]_vars

\* setFragment stored FRAGMENT[./XX>0] as the source of CN though no fragment XX exists
C12_Witness ==
    /\ last.cmd = "setFragment" /\ last.msg = "Fragment source updated!"
    /\ last.parm.SOURCE = SourceMissingAtStart
    /\ ~HasCode(cfgData, "CFG_ERFRAG", "ERFRAG_CODE", <<"X", "X">>)
    /\ getRecord(cfgData, "CFG_ERFRAG", "ERFRAG_CODE", <<"C", "N">>).ERFRAG_SOURCE = SourceMissingAtStart

C13_Witness ==
    /\ last.cmd = "deleteFragment" /\ last.msg = "rows deleted!"
    /\ ~HasCode(cfgData, "CFG_ERFRAG", "ERFRAG_ID", 11)
    /\ \E i \in 1..Len(cfgData.CFG_ERFRAG) :
           /\ cfgData.CFG_ERFRAG[i].ERFRAG_SOURCE = SourceBoth
           /\ cfgData.CFG_ERFRAG[i].ERFRAG_DEPENDS = <<"1", "1", ",", "1", "2">>

(***************************************************************************)
(* Sessions of the rule commands.  Rule 100 (SAME_A1) is the shipped rule: *)
(* it resolves, does not relate, has RTYPE_ID 1 and tier 10.               *)
(***************************************************************************)
\* an addRule argument with its resolve, relate, rtype_id and tier keys (tier 0: no tier)
RuleWith(rule, id, resolve, relate, rtype_id, tier) ==
    [RuleParm(rule, TRUE, id, <<"S", "N">>, <<>>) EXCEPT
        !.RESOLVE = resolve, !.RELATE = relate, !.RTYPE_ID = rtype_id, !.TIER = tier]

\* a setRule patch; UNKNOWN holds the keys of the patch that do_setRule does not know
SetRuleParm(hasID, id, resolve, relate, rtype_id) ==
    [hasID |-> hasID, ID |-> id, RESOLVE |-> resolve, RELATE |-> relate, RTYPE_ID |-> rtype_id,
     RULE |-> "", DESC |-> "", FRAGMENT |-> <<>>, DISQUALIFIER |-> <<>>, UNKNOWN |-> <<>>]

SetRule(args) ==
    \E arg \in args : Run("setRule", arg, do_setRule(cfgData, arg))

RuleAddArgs ==
    {RuleWith("SAME_B", 101, "Yes", "No", 1, 20), RuleWith("SAME_B", 101, "Yes", "Yes", 1, 20),
     RuleWith("SAME_C", 102, "Yes", "No", 1, 0), RuleWith("SAME_C", 102, "No", "Yes", 1, 0),
     RuleWith("SAME_D", 103, "No", "Yes", 2, 0), RuleWith("SAME_D", 100, "No", "Yes", 3, 0),
     RuleWith("SAME_A1", 104, "No", "Yes", 4, 0)}

RuleSetArgs ==
    {SetRuleParm(TRUE, id, resolve, relate, rtype_id) :
        id \in {100, 103}, resolve \in {"", "Yes", "No"}, relate \in {"", "Yes", "No"}, rtype_id \in {0, 1, 2}}
        \cup {SetRuleParm(TRUE, 100, "Maybe", "", 0), SetRuleParm(TRUE, 100, "", "Maybe", 0),
              SetRuleParm(TRUE, 100, "", "Yes", 5), SetRuleParm(FALSE, 0, "No", "", 0),
              SetRuleParm(TRUE, 105, "No", "", 0)}

NextRule ==
    \/ AddRule(RuleAddArgs)
    \/ SetRule(RuleSetArgs)

SpecRule == Init /\ [][NextRule]_vars

IsYes(s) == upper(s) = "YES"

C14_SetRuleResolveClearsRelate ==
    [][(Step("setRule") /\ IsYes(last'.parm.RESOLVE) /\ cfgData' # cfgData)
       => LET rule == cfgData'.CFG_ERRULE[lastIndex(cfgData.CFG_ERRULE, "ERRULE_ID", last'.parm.ID)]
          IN rule.RESOLVE = "Yes" /\ rule.RELATE = "No" /\ rule.RTYPE_ID = 1]_vars

\* addRule stored rule 101 with RESOLVE 'Yes' and RELATE 'Yes'
C14_Witness ==
    /\ last.cmd = "addRule" /\ last.msg = "Successfully added!"
    /\ \E i \in 1..Len(cfgData.CFG_ERRULE) :
           /\ cfgData.CFG_ERRULE[i].ERRULE_ID = 101
           /\ cfgData.CFG_ERRULE[i].RESOLVE = "Yes" /\ cfgData.CFG_ERRULE[i].RELATE = "Yes"

C15_Witness ==
    /\ last.cmd = "addRule" /\ last.msg = "Successfully added!"
    /\ \E i \in 1..Len(cfgData.CFG_ERRULE) :
           /\ cfgData.CFG_ERRULE[i].ERRULE_ID = 102
           /\ cfgData.CFG_ERRULE[i].RESOLVE = "Yes" /\ cfgData.CFG_ERRULE[i].ERRULE_TIER = 0

C16_SetRuleRelateSetsRelationType ==
    [][(Step("setRule") /\ IsYes(last'.parm.RELATE) /\ ~IsYes(last'.parm.RESOLVE) /\ cfgData' # cfgData)
       => LET rule == cfgData'.CFG_ERRULE[lastIndex(cfgData.CFG_ERRULE, "ERRULE_ID", last'.parm.ID)]
          IN rule.RELATE = "Yes" /\ rule.RTYPE_ID \in {2, 3, 4}]_vars

\* setRule {"id": 100, "rtype_id": 1} gave RTYPE_ID 1 to rule 100, which an earlier setRule
\* had made a relating rule
C16_Witness ==
    /\ last.cmd = "setRule" /\ last.parm.ID = 100 /\ last.parm.RTYPE_ID = 1 /\ last.parm.RELATE = ""
    /\ last.parm.RESOLVE \in {"", "No"}
    /\ cfgData.CFG_ERRULE[1].ERRULE_ID = 100
    /\ cfgData.CFG_ERRULE[1].RELATE = "Yes" /\ cfgData.CFG_ERRULE[1].RTYPE_ID = 1

(***************************************************************************)
(* Sessions of the threshold commands.  The shipped table holds (1, F1, 0) *)
(* as its first row and (1, FM, 0) as its second.                          *)
(***************************************************************************)
\* a setGenericThreshold patch; UNKNOWN holds the keys do_setGenericThreshold does not know
SetThresholdParm(plan, behavior, hasCap, candidateCap, hasScoring, scoringCap, hasRedo, sendToRedo) ==
    [PLAN |-> plan, BEHAVIOR |-> behavior, hasFeature |-> FALSE, FEATURE |-> "",
     hasCANDIDATECAP |-> hasCap, CANDIDATECAP |-> candidateCap,
     hasSCORINGCAP |-> hasScoring, SCORINGCAP |-> scoringCap,
     hasSENDTOREDO |-> hasRedo, SENDTOREDO |-> sendToRedo, UNKNOWN |-> <<>>]

SetGenericThreshold(args) ==
    \E arg \in args : Run("setGenericThreshold", arg, do_setGenericThreshold(cfgData, arg))

ThresholdAddArgs ==
    {ThresholdParm(plan, behavior, FALSE, "") :
        plan \in {"LOAD", "SEARCH"}, behavior \in {<<"F", "1">>, <<"F", "M">>, <<"F", "F">>}}
        \cup {ThresholdParm("LOAD", <<"F", "1", "E", "S">>, TRUE, "SSN"),
              ThresholdParm("LOAD", <<"N", "A", "M", "E">>, TRUE, "NAME"),
              ThresholdParm("LOAD", <<"F", "X">>, FALSE, ""),
              ThresholdParm("BOTH", <<"F", "1">>, FALSE, "")}

ThresholdSetArgs ==
    {SetThresholdParm("LOAD", <<"F", "1">>, TRUE, 20, FALSE, 0, FALSE, ""),
     SetThresholdParm("LOAD", <<"F", "M">>, FALSE, 0, TRUE, 20, TRUE, "No"),
     SetThresholdParm("SEARCH", <<"F", "1">>, TRUE, 30, FALSE, 0, FALSE, ""),
     SetThresholdParm("LOAD", <<"F", "1">>, FALSE, 0, FALSE, 0, TRUE, "Maybe")}

NextThreshold ==
    \/ AddGenericThreshold(ThresholdAddArgs)
    \/ SetGenericThreshold(ThresholdSetArgs)

SpecThreshold == Init /\ [][NextThreshold]_vars

\* the rows of the table that have the triple (plan, behavior, feature or all) of an argument
RowsOfTriple(cfg, parm) ==
    {i \in 1..Len(cfg.CFG_GENERIC_THRESHOLD) :
        LET row == cfg.CFG_GENERIC_THRESHOLD[i]
        IN /\ row.GPLAN_ID = (IF parm.PLAN = "LOAD" THEN 1 ELSE 2)
           /\ row.BEHAVIOR = parm.BEHAVIOR
           /\ row.FTYPE_ID = (IF parm.hasFeature
                              THEN getRecord(cfg, "CFG_FTYPE", "FTYPE_CODE", parm.FEATURE).FTYPE_ID
                              ELSE 0)}

ValidThreshold(cfg, parm) ==
    /\ parm.PLAN \in {"LOAD", "SEARCH"}
    /\ parm.hasFeature => HasCode(cfg, "CFG_FTYPE", "FTYPE_CODE", parm.FEATURE)

TriplesUnique(rows) ==
    \A i, j \in 1..Len(rows) :
        (/\ rows[i].GPLAN_ID = rows[j].GPLAN_ID
         /\ rows[i].BEHAVIOR = rows[j].BEHAVIOR
         /\ rows[i].FTYPE_ID = rows[j].FTYPE_ID) => i = j

C17_DuplicateOfLaterRowIsRejected ==
    [][(Step("addGenericThreshold") /\ ValidThreshold(cfgData, last'.parm)
            /\ \E i \in RowsOfTriple(cfgData, last'.parm) : i > 1)
       => /\ cfgData' = cfgData
          /\ last'.msg = "Generic threshold already exists."]_vars

\* addGenericThreshold for (LOAD, F1, all), the triple of the first row, was accepted
C17_Witness ==
    /\ last.cmd = "addGenericThreshold" /\ last.msg = "Successfully added!"
    /\ last.parm.PLAN = "LOAD" /\ last.parm.BEHAVIOR = <<"F", "1">> /\ ~last.parm.hasFeature
    /\ Cardinality(RowsOfTriple(cfgData, last.parm)) = 2
    /\ 1 \in RowsOfTriple(cfgData, last.parm)

(***************************************************************************)
(* Sessions of the set commands: patches that are empty apart from the     *)
(* key of the record, patches that repeat the values the record has, that  *)
(* change them, and that hold a key the command does not know.             *)
(***************************************************************************)
\* a setFeature patch; UNKNOWN holds the keys of the patch that do_setFeature does not know
SetFeatureParm(feature, hasBEHAVIOR, behavior, hasCANDIDATES, candidates, unknown) ==
    [FEATURE |-> feature, hasBEHAVIOR |-> hasBEHAVIOR, BEHAVIOR |-> behavior,
     hasANONYMIZE |-> FALSE, ANONYMIZE |-> "", hasCANDIDATES |-> hasCANDIDATES, CANDIDATES |-> candidates,
     hasSTANDARDIZE |-> FALSE, STANDARDIZE |-> "", UNKNOWN |-> unknown]

SetFeature(args) ==
    \E arg \in args : Run("setFeature", arg, do_setFeature(cfgData, arg))

F1ES == <<"F", "1", "E", "S">>

SetFeatureArgs ==
    {SetFeatureParm("SSN", FALSE, <<>>, FALSE, "", <<>>),
     SetFeatureParm("SSN", TRUE, F1ES, FALSE, "", <<>>),
     SetFeatureParm("SSN", FALSE, <<>>, TRUE, "Yes", <<>>),
     SetFeatureParm("ssn", FALSE, <<>>, TRUE, "No", <<>>),
     SetFeatureParm("SSN", TRUE, <<"F", "M">>, FALSE, "", <<>>),
     SetFeatureParm("SSN", TRUE, <<"F", "X">>, TRUE, "Maybe", <<>>),
     SetFeatureParm("SSN", FALSE, <<>>, FALSE, "", <<"VERSION">>),
     SetFeatureParm("SSN", FALSE, <<>>, TRUE, "No", <<"VERSION">>),
     SetFeatureParm("TAX_ID", FALSE, <<>>, TRUE, "No", <<>>),
     [SetFeatureParm("SSN", FALSE, <<>>, FALSE, "", <<>>) EXCEPT !.hasANONYMIZE = TRUE, !.ANONYMIZE = "Y"],
     [SetFeatureParm("SSN", FALSE, <<>>, FALSE, "", <<>>) EXCEPT
         !.hasSTANDARDIZE = TRUE, !.STANDARDIZE = "PARSE_NAME"],
     [SetFeatureParm("NAME", FALSE, <<>>, FALSE, "", <<>>) EXCEPT
         !.hasSTANDARDIZE = TRUE, !.STANDARDIZE = "PARSE_ID"]}

SetRuleArgs ==
    {SetRuleParm(TRUE, 100, "", "", 0), SetRuleParm(TRUE, 100, "Yes", "", 0),
     SetRuleParm(TRUE, 100, "Yes", "No", 1), SetRuleParm(TRUE, 100, "No", "Yes", 0),
     SetRuleParm(TRUE, 100, "No", "", 0),
     [SetRuleParm(TRUE, 100, "", "", 0) EXCEPT !.UNKNOWN = <<"TIER">>],
     [SetRuleParm(TRUE, 100, "No", "", 0) EXCEPT !.UNKNOWN = <<"TIER">>],
     [SetRuleParm(TRUE, 100, "", "", 0) EXCEPT !.DESC = "SAME_A1", !.RULE = "SAME_A1"],
     [SetRuleParm(TRUE, 100, "", "", 0) EXCEPT !.FRAGMENT = <<"C", "N">>, !.DISQUALIFIER = <<"S", "N">>]}

SetThresholdArgs ==
    {SetThresholdParm("LOAD", <<"F", "1">>, FALSE, 0, FALSE, 0, FALSE, ""),
     SetThresholdParm("LOAD", <<"F", "1">>, TRUE, 10, TRUE, 10, TRUE, "Yes"),
     SetThresholdParm("LOAD", <<"F", "M">>, TRUE, 50, FALSE, 0, FALSE, ""),
     SetThresholdParm("LOAD", <<"F", "M">>, TRUE, 60, FALSE, 0, TRUE, "No"),
     [SetThresholdParm("LOAD", <<"F", "1">>, FALSE, 0, FALSE, 0, FALSE, "") EXCEPT !.UNKNOWN = <<"VERSION">>],
     [SetThresholdParm("LOAD", <<"F", "1">>, FALSE, 0, TRUE, 70, FALSE, "") EXCEPT !.UNKNOWN = <<"VERSION">>],
     [SetThresholdParm("LOAD", <<"F", "1">>, TRUE, 5, FALSE, 0, FALSE, "") EXCEPT
         !.hasFeature = TRUE, !.FEATURE = "SSN"]}

SetFragmentArgs ==
    {FragmentParm(<<"S", "N">>, FALSE, 0, TRUE, SUM), FragmentParm(<<"S", "N">>, FALSE, 0, FALSE, <<>>),
     FragmentParm(<<"C", "N">>, FALSE, 0, TRUE, SourceBoth), FragmentParm(<<>>, TRUE, 12, TRUE, SUM)}

NextSet ==
    \/ SetFeature(SetFeatureArgs)
    \/ SetRule(SetRuleArgs)
    \/ SetGenericThreshold(SetThresholdArgs)
    \/ SetFragment(SetFragmentArgs)

SpecSet == Init /\ [][NextSet]_vars

SetCommands == {"setFeature", "setRule", "setGenericThreshold", "setFragment"}

\* the record a set command names, None when there is none
SetTarget(cfg, cmd, parm) ==
    IF cmd = "setFeature" THEN getRecord(cfg, "CFG_FTYPE", "FTYPE_CODE", upper(parm.FEATURE))
    ELSE IF cmd = "setRule" THEN getRecord(cfg, "CFG_ERRULE", "ERRULE_ID", parm.ID)
    ELSE IF cmd = "setFragment"
    THEN IF fragmentSearch(parm) = None THEN None
         ELSE getRecord(cfg, "CFG_ERFRAG", fragmentSearch(parm).field, fragmentSearch(parm).value)
    ELSE IF RowsOfTriple(cfg, parm) = {} THEN None
    ELSE cfg.CFG_GENERIC_THRESHOLD[CHOOSE i \in RowsOfTriple(cfg, parm) : TRUE]

\* every value the patch supplies is the value the record has (an empty patch supplies none)
SuppliesCurrentValues(cmd, parm, rec) ==
    IF cmd = "setFeature"
    THEN /\ parm.hasBEHAVIOR => parm.BEHAVIOR = getFeatureBehavior(rec)
         /\ parm.hasANONYMIZE => parm.ANONYMIZE = rec.ANONYMIZE
         /\ parm.hasCANDIDATES => parm.CANDIDATES = rec.USED_FOR_CAND
         /\ ~parm.hasSTANDARDIZE
    ELSE IF cmd = "setRule"
    THEN /\ parm.RESOLVE \in {"", rec.RESOLVE}
         /\ parm.RELATE \in {"", rec.RELATE}
         /\ parm.RTYPE_ID \in {0, rec.RTYPE_ID}
         /\ parm.RULE \in {"", rec.ERRULE_CODE}
         /\ parm.DESC \in {"", rec.ERRULE_DESC}
         /\ parm.FRAGMENT \in {<<>>, rec.QUAL_ERFRAG_CODE}
         /\ parm.DISQUALIFIER \in {<<>>, rec.DISQ_ERFRAG_CODE}
    ELSE IF cmd = "setFragment"
    THEN parm.hasSource => parm.SOURCE = rec.ERFRAG_SOURCE
    ELSE /\ parm.hasCANDIDATECAP => parm.CANDIDATECAP = rec.CANDIDATE_CAP
         /\ parm.hasSCORINGCAP => parm.SCORINGCAP = rec.SCORING_CAP
         /\ parm.hasSENDTOREDO => parm.SENDTOREDO = rec.SEND_TO_REDO

UnknownKeys(cmd, parm) == IF cmd = "setFragment" THEN <<>> ELSE parm.UNKNOWN

EmptyPatch(cmd, parm) ==
    /\ UnknownKeys(cmd, parm) = <<>>
    /\ IF cmd = "setFeature"
       THEN ~parm.hasBEHAVIOR /\ ~parm.hasANONYMIZE /\ ~parm.hasCANDIDATES /\ ~parm.hasSTANDARDIZE
       ELSE IF cmd = "setRule"
       THEN /\ parm.RESOLVE = "" /\ parm.RELATE = "" /\ parm.RTYPE_ID = 0 /\ parm.RULE = ""
            /\ parm.DESC = "" /\ parm.FRAGMENT = <<>> /\ parm.DISQUALIFIER = <<>>
       ELSE IF cmd = "setFragment" THEN ~parm.hasSource
       ELSE ~parm.hasCANDIDATECAP /\ ~parm.hasSCORINGCAP /\ ~parm.hasSENDTOREDO

\* what a set command prints to say that it changed a field
UpdateMessages ==
    {"Behavior successfully updated!", "Anonymize setting successfully updated!",
     "Candidates setting successfully updated!", "Standardization function updated!",
     "Rule code updated!", "Rule description updated!", "Rule fragment updated!",
     "Rule disqualifier updated!", "Rule resolve updated!", "Rule relate updated!",
     "Relationship type (RTYPE_ID) updated!", "Candidate cap updated!", "Scoring cap updated!",
     "Send to redo updated!", "Fragment source updated!"}

\* the command reported an error: it printed something that is no update message
ReportsError(l) == \E k \in 1..Len(l.printed) : l.printed[k] \notin UpdateMessages

\* C18: a set command (setFeature, setRule, setGenericThreshold, setFragment) on a record
\* that exists, whose patch is empty apart from the key of the record or supplies only
\* values the record has, changes no field, reports no error and leaves configUpdated as
\* it is.
C18_NoOpPatchIsNotAChange ==
    [][(StepIn(SetCommands) /\ SetTarget(cfgData, last'.cmd, last'.parm) # None
            /\ UnknownKeys(last'.cmd, last'.parm) = <<>>
            /\ SuppliesCurrentValues(last'.cmd, last'.parm, SetTarget(cfgData, last'.cmd, last'.parm)))
       => /\ cfgData' = cfgData
          /\ ~ReportsError(last')
          /\ configUpdated' = configUpdated]_vars

\* what holds of C18: such a patch changes no field, and an empty patch of setFeature, setRule
\* or setGenericThreshold prints nothing and leaves configUpdated as it is
C18_EmptyPatchIsNotAChange ==
    [][(StepIn(SetCommands) /\ SetTarget(cfgData, last'.cmd, last'.parm) # None
            /\ UnknownKeys(last'.cmd, last'.parm) = <<>>
            /\ SuppliesCurrentValues(last'.cmd, last'.parm, SetTarget(cfgData, last'.cmd, last'.parm)))
       => /\ cfgData' = cfgData
          /\ (EmptyPatch(last'.cmd, last'.parm) /\ last'.cmd # "setFragment")
                => last'.printed = <<>> /\ configUpdated' = configUpdated]_vars

\* the first command of the session, setFeature {"feature": "SSN", "candidates": "Yes"},
\* repeated the value SSN has, and configUpdated is set
C18_Witness ==
    /\ nCmds = 1 /\ last.cmd = "setFeature" /\ last.parm.hasCANDIDATES /\ ~last.parm.hasBEHAVIOR
    /\ last.parm.CANDIDATES = "Yes" /\ last.parm.UNKNOWN = <<>>
    /\ cfgData = shippedConfig
    /\ configUpdated

\* C19: a set command on a record that exists whose patch holds a key that is no settable
\* field reports at least one error and changes nothing, also when the patch holds valid
\* fields as well.
C19_UnknownFieldRejectsThePatch ==
    [][(StepIn(SetCommands) /\ SetTarget(cfgData, last'.cmd, last'.parm) # None
            /\ UnknownKeys(last'.cmd, last'.parm) # <<>>)
       => /\ ReportsError(last')
          /\ cfgData' = cfgData]_vars

\* what holds of C19: setFeature reports every key it does not know, and a patch that holds
\* nothing but such keys changes nothing
C19_SetFeatureReportsUnknownField ==
    [][(StepIn(SetCommands) /\ SetTarget(cfgData, last'.cmd, last'.parm) # None
            /\ UnknownKeys(last'.cmd, last'.parm) # <<>>)
       => /\ last'.cmd = "setFeature" => ReportsError(last')
          /\ EmptyPatch(last'.cmd, [last'.parm EXCEPT !.UNKNOWN = <<>>])
                => cfgData' = cfgData /\ configUpdated' = configUpdated]_vars

\* setFeature {"feature": "SSN", "candidates": "No", "version": 2} said that it cannot set
\* VERSION and set USED_FOR_CAND of SSN to 'No'
C19_Witness ==
    /\ last.cmd = "setFeature" /\ last.parm.UNKNOWN # <<>> /\ last.parm.hasCANDIDATES
    /\ "Cannot set" \in {last.printed[k] : k \in 1..Len(last.printed)}
    /\ getRecord(shippedConfig, "CFG_FTYPE", "FTYPE_CODE", "SSN").USED_FOR_CAND = "Yes"
    /\ getRecord(cfgData, "CFG_FTYPE", "FTYPE_CODE", "SSN").USED_FOR_CAND = "No"

(***************************************************************************)
(* Sessions of the adds that write several tables: addFeature,             *)
(* addExpressionCall and addFeatureComparison, with element lists that are *)
(* accepted, refused, and that make the handler fail while it writes.      *)
(***************************************************************************)
\* an ELEMENTLIST entry of addFeature whose "element" key is misspelled
MisspelledElement == [FELEM |-> "ID_NUM", EXPRESSED |-> "No", COMPARED |-> "No"]

MultiFeatureArgs ==
    {FeatureParm("TEST_ID", FALSE, 0, "", <<"F", "1", "E">>, "PARSE_ID", "EXPRESS_ID", "EXACT_COMP",
                 <<Element("ID_NUM", "Yes", "Yes"), Element("NEW_ELEM", "No", "No")>>),
     FeatureParm("TEST_ID", FALSE, 0, "NO_CLASS", <<>>, "", "", "", <<Element("ID_NUM", "No", "No")>>),
     FeatureParm("TEST_ID", FALSE, 0, "", <<>>, "", "", "EXACT_COMP",
                 <<Element("ID_NUM", "Yes", "No")>>),
     FeatureParm("ssn", FALSE, 0, "", <<>>, "", "", "", <<Element("ID_NUM", "No", "No")>>),
     FeatureParm("OTHER_ID", FALSE, 0, "", <<>>, "", "EXPRESS_ID", "",
                 <<Element("NEW_ELEM", "Yes", "No"), MisspelledElement>>)}

MultiExpressionArgs ==
    {ExpressionCallParm("NAME", "", "EXPRESS_ID", TRUE, 2, FALSE, 0, "SSN",
                        <<BomEntry("SSN", "ID_NUM", ""), BomEntry("", "FULL_NAME", "parent")>>),
     ExpressionCallParm("NAME", "", "EXPRESS_ID", TRUE, 3, FALSE, 0, "",
                        <<BomEntry("", "FULL_NAME", ""), BomEntry("", "NO_SUCH", "")>>),
     ExpressionCallParm("NAME", "", "EXPRESS_ID", TRUE, 4, FALSE, 0, "",
                        <<BomEntry("", "FULL_NAME", ""), BomEntry("", "id_num", "")>>),
     ExpressionCallParm("NAME", "", "EXPRESS_ID", TRUE, 6, FALSE, 0, "",
                        <<BomEntry("ssn", "ID_NUM", "")>>),
     ExpressionCallParm("NAME", "", "NO_FUNC", TRUE, 7, FALSE, 0, "",
                        <<BomEntry("", "FULL_NAME", "")>>)}

MultiComparisonArgs ==
    {ComparisonParm("ssn", "EXACT_COMP", <<[ELEMENT |-> "id_num"]>>),
     ComparisonParm("SSN", "EXACT_COMP", <<[ELEMENT |-> "ID_NUM"], [ELEMENT |-> "NO_SUCH"]>>),
     ComparisonParm("SSN", "EXACT_COMP", <<[ELEMENT |-> "ID_NUM"], [FELEM |-> "ID_NUM"]>>),
     ComparisonParm("SSN", "NO_COMP", <<[ELEMENT |-> "ID_NUM"]>>),
     ComparisonParm("TEST_ID", "EXACT_COMP", <<[ELEMENT |-> "ID_NUM"]>>)}

NextMultiAdd ==
    \/ AddFeature(MultiFeatureArgs)
    \/ AddExpressionCall(MultiExpressionArgs)
    \/ AddFeatureComparison(MultiComparisonArgs)

SpecMultiAdd == Init /\ [][NextMultiAdd]_vars

MultiTableAdds == {"addFeature", "addExpressionCall", "addFeatureComparison"}

\* the handler ended with an exception instead of a message of its own
Failed(msg) == msg \in {"TypeError", "KeyError", "ValueError"}

C20_RefusedAddChangesNothing ==
    [][StepIn(MultiTableAdds)
       => /\ (last'.msg # "Successfully added!" /\ ~Failed(last'.msg))
                => (cfgData' = cfgData /\ configUpdated' = configUpdated)
          /\ last'.msg = "Successfully added!" => configUpdated']_vars

\* what holds of C20: addFeatureComparison writes nothing unless it writes everything
C20_ComparisonIsAllOrNothing ==
    [][(Step("addFeatureComparison") /\ last'.msg # "Successfully added!")
       => cfgData' = cfgData]_vars

\* an add was refused for a bad entry of its element list, after an accepted one
C20_Witness ==
    /\ last.cmd \in MultiTableAdds
    /\ last.msg \in {"Invalid BOM element", "Invalid element"}
    /\ configUpdated

\* addExpressionCall failed on the second entry of its element list and the shell went on:
\* the call row of the failed command is in CFG_EFCALL with one entry of its two in CFG_EFBOM
C20_PartialCallWitness ==
    /\ last.cmd = "addExpressionCall"
    /\ last.msg = "TypeError"
    /\ \E i \in 1..Len(cfgData.CFG_EFCALL) :
          /\ cfgData.CFG_EFCALL[i].EXEC_ORDER = 4
          /\ Cardinality({j \in 1..Len(cfgData.CFG_EFBOM) :
                             cfgData.CFG_EFBOM[j].EFCALL_ID = cfgData.CFG_EFCALL[i].EFCALL_ID}) = 1

\* addFeature failed on the second entry of its element list: the feature row is in
\* CFG_FTYPE with the rows of its first entry
C20_PartialFeatureWitness ==
    /\ last.cmd = "addFeature"
    /\ last.msg = "KeyError"
    /\ \E i \in 1..Len(cfgData.CFG_FTYPE) : cfgData.CFG_FTYPE[i].FTYPE_CODE = "OTHER_ID"

(***************************************************************************)
(* Sessions of exportToFile and importFromFile among commands that add     *)
(* rows with generated IDs, the sentinel -1, a dependency list and the     *)
(* backup keys of setDistinct.                                             *)
(***************************************************************************)
ExportToFile(names) ==
    \E arg \in names, opens \in BOOLEAN :
        Run("exportToFile", arg, do_exportToFile(cfgData, files, arg, opens))

ImportFromFile(names) ==
    \E arg \in names, answer \in {"y", "n"} :
        Run("importFromFile", [FILE |-> arg, ANSWER |-> answer],
            do_importFromFile(cfgData, configUpdated, files, arg, answer))

FileNames == {"cfg.json", "other.json"}

FileFeatureArgs ==
    {FeatureParm("TEST_ID", FALSE, 0, "", <<"F", "1", "E">>, "PARSE_ID", "EXPRESS_ID", "EXACT_COMP",
                 <<Element("ID_NUM", "Yes", "Yes"), Element("NEW_ELEM", "No", "No")>>)}

FileFragmentArgs ==
    {FragmentParm(<<"T", "F">>, FALSE, 0, TRUE,
                  <<".", "/", "F", "R", "A", "G", "M", "E", "N", "T", "[", ".", "/", "S", "N", "]">>)}

NextFile ==
    \/ ExportToFile(FileNames)
    \/ ImportFromFile(FileNames)
    \/ AddFeature(FileFeatureArgs)
    \/ AddFragment(FileFragmentArgs)
    \/ DeleteDataSource({"SEARCH"})
    \/ SetDistinct({"off"})

SpecFile == Init /\ [][NextFile]_vars

Exported == last'.msg = "Successfully exported!"
Imported == last'.msg = "Successfully imported!"

\* the surrogate IDs and dependency lists of a document, table by table and row by row
Surrogates(cfg) ==
    [t \in DOMAIN tablesOf(cfg) |->
        [k \in 1..Len(tablesOf(cfg)[t]) |->
            [f \in DOMAIN tablesOf(cfg)[t][k] \cap (intFields \cup {"ERFRAG_DEPENDS"}) |->
                tablesOf(cfg)[t][k][f]]]]

\* C21: the file exportToFile writes reads back as the exported document (the same tables,
\* the same number of rows in each, every ID and every ERFRAG_DEPENDS unchanged), the
\* document importFromFile installs is the one read from the file, and exporting the
\* imported document gives the same file again.
C21_ExportImportRoundTrip ==
    [][/\ (Step("exportToFile") /\ Exported)
            => /\ load(files'[last'.parm]) = cfgData
               /\ Surrogates(load(files'[last'.parm])) = Surrogates(cfgData)
               /\ cfgData' = cfgData
       /\ (Step("importFromFile") /\ Imported)
            => /\ cfgData' = load(files[last'.parm.FILE])
               /\ dump(cfgData') = files[last'.parm.FILE]
               /\ files' = files]_vars

\* a document with an added feature (generated IDs, calls with the sentinel -1) was
\* exported, changed, and imported again from the same file
C21_Witness ==
    /\ last.cmd = "importFromFile"
    /\ last.msg = "Successfully imported!"
    /\ configUpdated
    /\ \E i \in 1..Len(cfgData.CFG_SFCALL) : cfgData.CFG_SFCALL[i].SFCALL_ID >= Seed

(***************************************************************************)
(* Sessions of addFragment and setFragment in which the dependency scan    *)
(* runs one test of its while loop at a time.                              *)
(***************************************************************************)
\* the handler is entered: it refuses the command before the scan, or starts the scan
StartScan(cmd, arg, r) ==
    IF r.msg \in FragmentEarlyRefusals
    THEN Run(cmd, arg, r)
    ELSE /\ nCmds < MaxCmds
         /\ ~Stopped
         /\ scanState.pc = "idle"
         /\ scanState' = [pc |-> "while", cmd |-> cmd, parm |-> arg, sourceString |-> arg.SOURCE,
                     dependencyList |-> <<>>]
         /\ UNCHANGED <<cfgData, configUpdated, last, nCmds, files, defaultConfig>>

ScanAddFragment(args) ==
    \E arg \in args : StartScan("addFragment", arg, do_addFragment(cfgData, arg))

ScanSetFragment(args) ==
    \E arg \in args : StartScan("setFragment", arg, do_setFragment(cfgData, arg))

\* one test of the while loop and the body after it
ScanIteration ==
    /\ scanState.pc = "while"
    /\ LET it == scanIteration(cfgData, scanState.sourceString, scanState.dependencyList)
       IN scanState' = [scanState EXCEPT !.pc = it.pc, !.sourceString = it.sourceString,
                               !.dependencyList = it.dependencyList]
    /\ UNCHANGED <<cfgData, configUpdated, last, nCmds, files, defaultConfig>>

\* the code after the loop, or the return from inside it
EndScan ==
    /\ scanState.pc \in {"done", "invalid"}
    /\ Run(scanState.cmd, scanState.parm,
           IF scanState.cmd = "addFragment" THEN do_addFragment(cfgData, scanState.parm)
           ELSE do_setFragment(cfgData, scanState.parm))

ScanAddArgs ==
    {FragmentParm(<<"A">>, FALSE, 0, TRUE, s) : s \in FragSources \cup {SourceOpen}}
        \cup {FragmentParm(<<"S", "N">>, FALSE, 0, TRUE, SourceBoth)}

ScanSetArgs ==
    {FragmentParm(<<"C", "N">>, FALSE, 0, TRUE, s) : s \in FragSources \cup {SourceOpen}}
        \cup {FragmentParm(<<"X", "X">>, FALSE, 0, TRUE, SourceBoth)}

NextScan ==
    \/ ScanAddFragment(ScanAddArgs)
    \/ ScanSetFragment(ScanSetArgs)
    \/ ScanIteration
    \/ EndScan

SpecScan == Init /\ [][NextScan]_vars

\* the interpreter runs the loop on: a test of the loop that can change the state is taken
SpecScanFair == SpecScan /\ WF_vars(ScanIteration)

\* every FRAGMENT[ marker of the source after position 0 has a ']' after it
Closed(source) ==
    \A p \in 1..(Len(source) - Len(kwFRAGMENT)) :
        SubSeq(source, p + 1, p + Len(kwFRAGMENT)) = kwFRAGMENT => find(source, <<"]">>, p) # -1

C22_ClosedScanTerminates ==
    (scanState.pc = "while" /\ Closed(scanState.parm.SOURCE)) ~> (scanState.pc # "while")

\* the loop run one test at a time gives what the handler gives: the dependency list that
\* is stored, or the refusal
C22_ScanAgreesWithHandler ==
    [][(scanState.pc \in {"done", "invalid"} /\ scanState'.pc = "idle")
       => /\ last'.msg # "does not return"
          /\ scanState.pc = "invalid" <=> last'.msg = "Invalid fragment reference"
          /\ scanState.pc = "done" =>
                \E i \in 1..Len(cfgData'.CFG_ERFRAG) :
                    /\ cfgData'.CFG_ERFRAG[i].ERFRAG_SOURCE = scanState.parm.SOURCE
                    /\ cfgData'.CFG_ERFRAG[i].ERFRAG_DEPENDS = join(scanState.dependencyList)]_vars

\* the scan is at the test of its loop for a source with an open marker, and the test
\* leaves its state as it is
C22_Witness ==
    /\ scanState.pc = "while"
    /\ ~Closed(scanState.parm.SOURCE)
    /\ scanIteration(cfgData, scanState.sourceString, scanState.dependencyList).pc = "while"
    /\ scanIteration(cfgData, scanState.sourceString, scanState.dependencyList).sourceString = scanState.sourceString

\* a scan of a source with two references left its loop after its second test
C22_ClosedWitness ==
    /\ scanState.pc = "done"
    /\ Closed(scanState.parm.SOURCE)
    /\ Len(scanState.dependencyList) = 2

(***************************************************************************)
(* Sessions of the commands that write or delete call rows and their BOM   *)
(* rows.  The document loaded is the shipped one, or the shipped one with  *)
(* the expression function NAME_HASHER and its call for NAME.              *)
(***************************************************************************)
hashedConfig ==
    [shippedConfig EXCEPT
        !.CFG_EFUNC = Append(@, [EFUNC_ID |-> 4, EFUNC_CODE |-> "NAME_HASHER"]),
        !.CFG_EFCALL = Append(@, [EFCALL_ID |-> 7, EFUNC_ID |-> 4, EXEC_ORDER |-> 1, FTYPE_ID |-> 1,
                                  FELEM_ID |-> NotApplicable, EFEAT_FTYPE_ID |-> NotApplicable]),
        !.CFG_EFBOM = Append(@, [EFCALL_ID |-> 7, EXEC_ORDER |-> 1, FTYPE_ID |-> 1, FELEM_ID |-> 2])]

InitHashed ==
    /\ cfgData \in {shippedConfig, hashedConfig}
    /\ configUpdated = FALSE
    /\ last = [cmd |-> "loadConfig", parm |-> <<>>, msg |-> "", usedIn |-> <<>>, printed |-> <<>>]
    /\ nCmds = 0
    /\ files = NoFiles
    /\ scanState = IdleScan
    /\ defaultConfig = dump(cfgData)

AddToNamehash(args) ==
    \E arg \in args : Run("addToNamehash", arg, do_addToNamehash(cfgData, arg))

BomFeatureArgs ==
    {FeatureParm("TEST_ID", FALSE, 0, "", <<"F", "1", "E">>, "PARSE_ID", "EXPRESS_ID", "EXACT_COMP",
                 <<Element("ID_NUM", "Yes", "Yes"), Element("EMAIL_KEY", "Yes", "No")>>),
     FeatureParm("test_id", TRUE, 7, "", <<>>, "", "EXPRESS_ID", "", <<Element("ID_NUM", "Yes", "No")>>)}

BomNamehashArgs == {FeatureElementParm("SSN", "ID_NUM"), FeatureElementParm("", "email_key")}

BomExpressionArgs ==
    {ExpressionCallParm("NAME", "", "EXPRESS_ID", TRUE, 2, TRUE, 8, "SSN",
                        <<BomEntry("SSN", "ID_NUM", ""), BomEntry("", "FULL_NAME", "parent")>>),
     ExpressionCallParm("SSN", "", "EXPRESS_ID", TRUE, 4, FALSE, 0, "",
                        <<BomEntry("", "ID_NUM", ""), BomEntry("", "id_num", "")>>)}

BomComparisonArgs ==
    {ComparisonParm("ssn", "EXACT_COMP", <<[ELEMENT |-> "ID_NUM"], [ELEMENT |-> "EMAIL_KEY"]>>)}

BomElementArgs == {FeatureElementParm("SSN", "EMAIL_KEY"), FeatureElementParm("NAME", "ID_NUM")}

NextBom ==
    \/ AddFeature(BomFeatureArgs)
    \/ AddToNamehash(BomNamehashArgs)
    \/ AddExpressionCall(BomExpressionArgs)
    \/ AddFeatureComparison(BomComparisonArgs)
    \/ AddFeatureComparisonElement(BomElementArgs)
    \/ DeleteFeature({"SSN", "TEST_ID"})
    \/ DeleteExpressionCall({3, 7, 8, Seed})
    \/ DeleteFeatureComparison({"SSN", "NAME"})
    \/ DeleteFeatureDistinctCall({"SSN"})
    \/ SetDistinct({"off", "on"})

SpecBom == InitHashed /\ [][NextBom]_vars

\* every row of the BOM table carries the ID of a row of the call table
NoOrphans(cfg, bomTable, callTable, idField) ==
    \A i \in 1..Len(cfg[bomTable]) :
        \E j \in 1..Len(cfg[callTable]) : cfg[callTable][j][idField] = cfg[bomTable][i][idField]

CallFeatureArgs ==
    {FeatureParm("TEST_ID", FALSE, 0, "", <<"F", "1", "E">>, "PARSE_ID", "EXPRESS_ID", "",
                 <<Element("ID_NUM", "Yes", "No")>>),
     FeatureParm("OTHER_ID", TRUE, 8, "", <<>>, "PARSE_ID", "", "", <<Element("NEW_ELEM", "No", "No")>>)}

CallStandardizeArgs ==
    {CallParm("SSN", "", "PARSE_ID", TRUE, 2, FALSE, 0),
     CallParm("", "email_key", "PARSE_ID", TRUE, 1, FALSE, 0),
     CallParm("", "NEW_ELEM", "PARSE_ID", TRUE, 1, TRUE, 9),
     CallParm("SSN", "ID_NUM", "PARSE_ID", TRUE, 3, FALSE, 0),
     CallParm("SSN", "NO_SUCH", "PARSE_ID", TRUE, 3, FALSE, 0),
     CallParm("", "", "PARSE_ID", TRUE, 3, FALSE, 0)}

CallExpressionArgs ==
    {ExpressionCallParm("NAME", "", "EXPRESS_ID", TRUE, 2, FALSE, 0, "SSN", <<BomEntry("SSN", "ID_NUM", "")>>),
     ExpressionCallParm("", "EMAIL_KEY", "EXPRESS_ID", TRUE, 1, TRUE, 9, "", <<BomEntry("", "ID_NUM", "")>>),
     ExpressionCallParm("", "ID_NUM", "EXPRESS_ID", TRUE, 4, FALSE, 0, "", <<BomEntry("", "id_num", "")>>),
     ExpressionCallParm("SSN", "ID_NUM", "EXPRESS_ID", TRUE, 3, FALSE, 0, "", <<BomEntry("", "ID_NUM", "")>>),
     ExpressionCallParm("", "", "EXPRESS_ID", TRUE, 3, FALSE, 0, "", <<BomEntry("", "ID_NUM", "")>>)}

NextCall ==
    \/ AddFeature(CallFeatureArgs)
    \/ AddStandardizeCall(CallStandardizeArgs)
    \/ AddExpressionCall(CallExpressionArgs)

SpecCall == Init /\ [][NextCall]_vars

HasID(cfg, table, idField, id) == \E i \in 1..Len(cfg[table]) : cfg[table][i][idField] = id

\* one of FTYPE_ID and FELEM_ID of the row is the ID of a row, the other is the sentinel -1
OneForeignKey(cfg, row) ==
    \/ (row.FELEM_ID = -1 /\ row.FTYPE_ID # -1 /\ HasID(cfg, "CFG_FTYPE", "FTYPE_ID", row.FTYPE_ID))
    \/ (row.FTYPE_ID = -1 /\ row.FELEM_ID # -1 /\ HasID(cfg, "CFG_FELEM", "FELEM_ID", row.FELEM_ID))

\* the rows of the table that the step appended
Appended(table) == SubSeq(cfgData'[table], Len(cfgData[table]) + 1, Len(cfgData'[table]))

NamesFeature(parm) == parm.FEATURE # ""
NamesElement(parm) == parm.ELEMENT # ""

ResolveAddArgs ==
    {RuleWith("SAME_D", 103, "No", "Yes", 2, 0), RuleWith("SAME_E", 106, "No", "Yes", 4, 0)}

ResolveSetArgs ==
    {SetRuleParm(TRUE, id, resolve, relate, rtype_id) :
        id \in {100, 103}, resolve \in {"Yes", "yes", "YES"}, relate \in {"", "Yes", "No", "Maybe"},
        rtype_id \in {0, 1, 3, 5}}
        \cup {SetRuleParm(TRUE, id, resolve, relate, 0) :
                id \in {100, 103}, resolve \in {"", "No", "Maybe"}, relate \in {"", "Yes", "Maybe"}}
        \cup {[SetRuleParm(TRUE, id, resolve, relate, 0) EXCEPT !.DESC = "SAME_A1", !.RULE = "SAME_A1"] :
                id \in {100, 103}, resolve \in {"Maybe", "Yes"}, relate \in {"", "Maybe"}}
        \cup {SetRuleParm(TRUE, 105, "Yes", "", 0), SetRuleParm(FALSE, 0, "Yes", "", 0)}

NextResolve ==
    \/ AddRule(ResolveAddArgs)
    \/ SetRule(ResolveSetArgs)

SpecResolve == Init /\ [][NextResolve]_vars

\* the rule that a setRule patch names, before and after the command
PatchedRule(cfg, parm) == cfg.CFG_ERRULE[lastIndex(cfg.CFG_ERRULE, "ERRULE_ID", parm.ID)]

NotYesNo(s) == s # "" /\ upper(s) \notin {"YES", "NO"}

C25_InvalidWitness ==
    /\ last.cmd = "setRule" /\ last.parm.ID = 100 /\ last.parm.RESOLVE = "Maybe"
    /\ last.parm.DESC = "SAME_A1"
    /\ last.msg = "ERROR: Resolve should be Yes or No"

(***************************************************************************)
(* Sessions of the three commands that take a behavior code, with codes of *)
(* the enumeration and with other strings over the same letters.           *)
(***************************************************************************)
\* the behavior codes of the enumeration
BehaviorCodes ==
    {BehaviorNAME, BehaviorNONE,
     <<"A", "1">>, <<"A", "1", "E">>, <<"A", "1", "E", "S">>,
     <<"F", "1">>, <<"F", "1", "E">>, <<"F", "1", "E", "S">>,
     <<"F", "F">>, <<"F", "F", "E">>, <<"F", "F", "E", "S">>,
     <<"F", "M">>, <<"F", "M", "E">>, <<"F", "M", "E", "S">>,
     <<"F", "V", "M">>, <<"F", "V", "M", "E">>, <<"F", "V", "M", "E", "S">>}

\* strings that are no behavior code: letters in another order, a missing E, an unknown frequency
OtherBehaviors ==
    {<<"F", "1", "S">>, <<"E", "F", "1">>, <<"F", "1", "S", "E">>, <<"F", "E", "M">>,
     <<"F", "X">>, <<"N", "A", "M", "E", "S">>, <<"N", "O", "N", "E", "E">>, <<"E", "S">>}

BehaviorFeatureArgs ==
    {FeatureParm("TEST_ID", FALSE, 0, "", behavior, "", "", "", OneElement) :
        behavior \in BehaviorCodes \cup OtherBehaviors \cup {<<>>}}

BehaviorSetArgs ==
    {SetFeatureParm("SSN", TRUE, behavior, FALSE, "", <<>>) :
        behavior \in {BehaviorNAME, <<"A", "1">>, <<"F", "M", "E">>, <<"F", "V", "M", "E", "S">>}
                         \cup OtherBehaviors}
        \cup {SetFeatureParm("TEST_ID", TRUE, <<"F", "F", "E", "S">>, FALSE, "", <<>>)}

BehaviorThresholdArgs ==
    {ThresholdParm("LOAD", behavior, FALSE, "") :
        behavior \in {BehaviorNONE, <<"F", "F", "E">>, <<"F", "1", "S">>, <<"E", "F", "1">>, <<"F", "X">>}}
        \cup {ThresholdParm("SEARCH", behavior, TRUE, "TEST_ID") :
                behavior \in {<<"F", "1", "S">>, <<"F", "1", "S", "E">>, <<"F", "1", "E", "S">>, <<"F", "M">>}}

NextBehavior ==
    \/ AddFeature(BehaviorFeatureArgs)
    \/ SetFeature(BehaviorSetArgs)
    \/ AddGenericThreshold(BehaviorThresholdArgs)

SpecBehavior == Init /\ [][NextBehavior]_vars

BehaviorCommands == {"addFeature", "setFeature", "addGenericThreshold"}

\* the step is one of the two feature commands, it was given a behavior, and it changed the document
FeatureBehaviorAccepted ==
    /\ StepIn({"addFeature", "setFeature"})
    /\ last'.parm.BEHAVIOR # <<>>
    /\ cfgData' # cfgData

\* the behavior reported for the feature that the command named, after the command
ReportedBehavior ==
    getFeatureBehavior(getRecord(cfgData', "CFG_FTYPE", "FTYPE_CODE", upper(last'.parm.FEATURE)))

\* C26: addFeature, setFeature and addGenericThreshold change the document only when the
\* behavior code they are given is a member of the enumeration; a command given any other
\* string leaves the document and configUpdated as they were.
C26_OnlyEnumeratedBehaviorAccepted ==
    [][(StepIn(BehaviorCommands) /\ last'.parm.BEHAVIOR \notin BehaviorCodes \cup {<<>>})
       => cfgData' = cfgData /\ configUpdated' = configUpdated]_vars

\* the second half of C26: the behavior reported for the stored FTYPE_FREQ, FTYPE_EXCL and
\* FTYPE_STAB of a feature is the code that addFeature or setFeature accepted for it
C26_AcceptedBehaviorReportedBack ==
    [][FeatureBehaviorAccepted => ReportedBehavior = last'.parm.BEHAVIOR]_vars

\* what holds of C26: a code of the enumeration that addFeature or setFeature accepted is
\* reported back unchanged
C26_EnumeratedBehaviorReportedBack ==
    [][(FeatureBehaviorAccepted /\ last'.parm.BEHAVIOR \in BehaviorCodes)
       => ReportedBehavior = last'.parm.BEHAVIOR]_vars

\* what holds of C26: a string from which removing E and S leaves no frequency code is
\* refused by the three commands, and nothing changes
C26_UnparsedBehaviorRejected ==
    [][(StepIn(BehaviorCommands) /\ last'.parm.BEHAVIOR # <<>>
        /\ parseFeatureBehavior(last'.parm.BEHAVIOR) = None)
       => cfgData' = cfgData /\ configUpdated' = configUpdated]_vars

\* addFeature stored TEST_ID with the behavior F1S, which the enumeration does not hold
C26_Witness ==
    /\ last.cmd = "addFeature" /\ last.msg = "Successfully added!"
    /\ last.parm.BEHAVIOR = <<"F", "1", "S">>
    /\ getFeatureBehavior(getRecord(cfgData, "CFG_FTYPE", "FTYPE_CODE", "TEST_ID")) = <<"F", "1", "S">>

\* setFeature accepted F1SE for SSN, and the behavior reported for SSN is F1ES
C26_ReorderedWitness ==
    /\ last.cmd = "setFeature" /\ last.parm.BEHAVIOR = <<"F", "1", "S", "E">>
    /\ getFeatureBehavior(getRecord(cfgData, "CFG_FTYPE", "FTYPE_CODE", "SSN")) = <<"F", "1", "E", "S">>
    /\ \E k \in 1..Len(last.printed) : last.printed[k] = "Behavior successfully updated!"

(***************************************************************************)
(* Sessions that change the document, import one from a file and save.     *)
(* The file backup.json was exported by an earlier session from the        *)
(* configuration with the name hasher call.                                *)
(***************************************************************************)
BackupFile == "backup.json"

InitBackup ==
    /\ cfgData = shippedConfig
    /\ configUpdated = FALSE
    /\ last = [cmd |-> "loadConfig", parm |-> <<>>, msg |-> "", usedIn |-> <<>>, printed |-> <<>>]
    /\ nCmds = 0
    /\ files = (BackupFile :> dump(hashedConfig))
    /\ scanState = IdleScan
    /\ defaultConfig = dump(cfgData)

Save ==
    \E answer \in {"y", "n"}, added \in BOOLEAN :
        Run("save", [ANSWER |-> answer], do_save(cfgData, configUpdated, answer, added))

UpdatedFeatureArgs ==
    FileFeatureArgs \cup {FeatureParm("SSN", FALSE, 0, "", <<"F", "1">>, "", "", "", OneElement)}

NextUpdated ==
    \/ ImportFromFile({BackupFile, "cfg.json"})
    \/ ExportToFile({"cfg.json"})
    \/ Save
    \/ AddFeature(UpdatedFeatureArgs)
    \/ DeleteFeature({"SSN", "NAME"})
    \/ SetDistinct({"off", "on", "maybe"})

SpecUpdated == InitBackup /\ [][NextUpdated]_vars

\* what the commands of these sessions print when they have done what was asked
DoneMessages ==
    {"Successfully added!", "Successfully deleted!", "Successfully imported!", "Successfully exported!",
     "Configuration changes saved!", "distinct is now OFF!", "distinct is now ON!"}

\* C27: a command that changes the document, the import that replaces it included, leaves
\* configUpdated true, and a command that is refused leaves the document and configUpdated
\* as they were.
C27_ChangeSetsConfigUpdated ==
    [][nCmds' = nCmds + 1
       => /\ cfgData' # cfgData => configUpdated'
          /\ last'.msg \notin DoneMessages => (cfgData' = cfgData /\ configUpdated' = configUpdated)]_vars

\* the consequence C27 draws: when a save goes through, the default configuration is the
\* document, so no change is left unsaved
C27_SavePersistsDocument ==
    [][(Step("save") /\ last'.msg \in {"Configuration changes saved!", "There were no changes to save"})
       => load(defaultConfig') = cfgData']_vars

\* what holds of C27: every command of these sessions other than importFromFile that changes
\* the document leaves configUpdated true, and every refused command changes nothing
C27_ChangeByEditSetsConfigUpdated ==
    [][(nCmds' = nCmds + 1 /\ last'.cmd # "importFromFile")
       => /\ cfgData' # cfgData => configUpdated'
          /\ last'.msg \notin DoneMessages => (cfgData' = cfgData /\ configUpdated' = configUpdated)]_vars

\* importFromFile replaced the document and configUpdated is false: the document differs
\* from the default configuration and save reports that there is nothing to save
C27_Witness ==
    /\ last.cmd = "importFromFile" /\ last.msg = "Successfully imported!"
    /\ cfgData = hashedConfig
    /\ ~configUpdated
    /\ load(defaultConfig) # cfgData
    /\ do_save(cfgData, configUpdated, "y", TRUE).msg = "There were no changes to save"

\* a save after the import left the default configuration as it was
C27_UnsavedWitness ==
    /\ last.cmd = "save" /\ last.msg = "There were no changes to save"
    /\ load(defaultConfig) # cfgData

(***************************************************************************)
(* Sessions of the commands that add and delete features, elements and the *)
(* rows that name an element.  In the shipped configuration ID_NUM is an   *)
(* element of SSN alone, and SSN's comparison call compares it.            *)
(***************************************************************************)
ElemRefFeatureArgs ==
    {FeatureParm("TEST_ID", FALSE, 0, "", <<"F", "1", "E">>, "PARSE_ID", "EXPRESS_ID", "EXACT_COMP",
                 <<Element("ID_NUM", "Yes", "Yes"), Element("NEW_ELEM", "Yes", "No")>>)}

ElemRefExpressionArgs ==
    {ExpressionCallParm("SSN", "", "EXPRESS_ID", TRUE, 4, FALSE, 0, "",
                        <<BomEntry("", "ID_NUM", ""), BomEntry("", "EMAIL_KEY", "")>>)}

NextElemRef ==
    \/ AddFeature(ElemRefFeatureArgs)
    \/ AddElementToFeature({FeatureElementIDParm("SSN", "EMAIL_KEY", FALSE, 0),
                            FeatureElementIDParm("SSN", "STATE", TRUE, 9)})
    \/ AddFeatureComparisonElement({FeatureElementParm("SSN", "EMAIL_KEY"),
                                    FeatureElementParm("SSN", "STATE")})
    \/ AddExpressionCall(ElemRefExpressionArgs)
    \/ DeleteElementFromFeature({FeatureElementParm("SSN", "ID_NUM"), FeatureElementParm("SSN", "EMAIL_KEY"),
                                 FeatureElementParm("TEST_ID", "NEW_ELEM")})
    \/ DeleteElement({"ID_NUM", "EMAIL_KEY", "NEW_ELEM", "STATE"})
    \/ DeleteFeature({"SSN", "TEST_ID"})

SpecElemRef == Init /\ [][NextElemRef]_vars

BomTables == {"CFG_FBOM", "CFG_EFBOM", "CFG_CFBOM", "CFG_DFBOM"}

\* the FELEM_ID values of the table's rows that name an element (no sentinel 0 or -1)
ElementsNamedIn(cfg, table) ==
    {cfg[table][i].FELEM_ID : i \in 1..Len(cfg[table])} \ {0, NotApplicable}

ElementIDs(cfg) == {cfg.CFG_FELEM[i].FELEM_ID : i \in 1..Len(cfg.CFG_FELEM)}

C28_ComparedElementIsKept ==
    [][(Step("deleteElement") /\ Len(cfgData'.CFG_FELEM) < Len(cfgData.CFG_FELEM))
       => \A table \in {"CFG_CFBOM", "CFG_EFBOM"} :
             (ElementIDs(cfgData) \ ElementIDs(cfgData')) \cap ElementsNamedIn(cfgData, table) = {}]_vars

\* what holds of C28: the rows that the four add commands write name existing elements only
C28_AddsNameExistingElements ==
    [][StepIn({"addFeature", "addElementToFeature", "addFeatureComparisonElement", "addExpressionCall"})
       => \A table \in BomTables :
             ElementsNamedIn(cfgData', table) \ ElementsNamedIn(cfgData, table) \subseteq ElementIDs(cfgData')]_vars

ReturnCodeParm(function, scoreName, hasFeature, feature, hasID, id) ==
    [FUNCTION |-> function, SCORENAME |-> scoreName, hasFeature |-> hasFeature, FEATURE |-> feature,
     hasID |-> hasID, ID |-> id, hasSAMESCORE |-> FALSE, SAMESCORE |-> 0]

AddComparisonFuncReturnCode(args) ==
    \E arg \in args :
        Run("addComparisonFuncReturnCode", arg, do_addComparisonFuncReturnCode(cfgData, arg))

ListGenericThresholds ==
    Run("listGenericThresholds", "", do_listGenericThresholds(cfgData))

DanglingThresholdArgs ==
    {ThresholdParm("SEARCH", <<"F", "1", "E", "S">>, TRUE, "SSN"),
     ThresholdParm("LOAD", <<"F", "1", "E", "S">>, TRUE, "SSN"),
     ThresholdParm("SEARCH", BehaviorNAME, TRUE, "NAME"),
     ThresholdParm("SEARCH", <<"F", "F">>, FALSE, "")}

DanglingReturnCodeArgs ==
    {ReturnCodeParm("EXACT_COMP", "FULL_SCORE", TRUE, "SSN", FALSE, 0),
     ReturnCodeParm("exact_comp", "PART_SCORE", TRUE, "SSN", TRUE, 5),
     ReturnCodeParm("EXACT_COMP", "FULL_SCORE", FALSE, "", FALSE, 0),
     ReturnCodeParm("EXACT_COMP", "PART_SCORE", TRUE, "TAX_ID", FALSE, 0),
     ReturnCodeParm("OTHER_COMP", "FULL_SCORE", FALSE, "", FALSE, 0)}

DanglingExpressionArgs ==
    {ExpressionCallParm("NAME", "", "EXPRESS_ID", TRUE, 2, TRUE, 8, "SSN", <<BomEntry("", "FULL_NAME", "")>>),
     ExpressionCallParm("SSN", "", "EXPRESS_ID", TRUE, 4, FALSE, 0, "", <<BomEntry("", "ID_NUM", "")>>)}

NextDangling ==
    \/ AddGenericThreshold(DanglingThresholdArgs)
    \/ AddComparisonFuncReturnCode(DanglingReturnCodeArgs)
    \/ AddExpressionCall(DanglingExpressionArgs)
    \/ DeleteFeature({"SSN", "NAME", "TAX_ID"})
    \/ ListGenericThresholds

SpecDangling == Init /\ [][NextDangling]_vars

\* the FTYPE_ID values that the field holds in the rows of the table, the sentinels 0 and -1 left out
FeaturesNamedIn(cfg, table, field) ==
    {cfg[table][i][field] : i \in 1..Len(cfg[table])} \ {0, NotApplicable}

\* the ID of the feature that a deleteFeature step deleted
DeletedFeatures == FeaturesNamedIn(cfgData, "CFG_FTYPE", "FTYPE_ID") \ FeaturesNamedIn(cfgData', "CFG_FTYPE", "FTYPE_ID")

C29_ListResolvesEveryFeature ==
    [][Step("listGenericThresholds") => last'.msg # "TypeError"]_vars

\* what holds of C29: deleteFeature leaves no call row and no BOM row with the FTYPE_ID of
\* the feature it deleted
C29_DeletedFeatureHasNoCalls ==
    [][(Step("deleteFeature") /\ last'.msg = "Successfully deleted!")
       => \A table \in {"CFG_SFCALL", "CFG_EFCALL", "CFG_CFCALL", "CFG_DFCALL", "CFG_FBOM", "CFG_EFBOM"} :
             DeletedFeatures \cap FeaturesNamedIn(cfgData', table, "FTYPE_ID") = {}]_vars

C29_ReturnCodeWitness ==
    /\ last.cmd = "deleteFeature" /\ last.msg = "Successfully deleted!"
    /\ getRecord(cfgData, "CFG_FTYPE", "FTYPE_CODE", "SSN") = None
    /\ 7 \in FeaturesNamedIn(cfgData, "CFG_CFRTN", "FTYPE_ID")

\* the same for the call of NAME that has SSN as its expression feature
C29_ExpressionFeatureWitness ==
    /\ last.cmd = "deleteFeature" /\ last.msg = "Successfully deleted!"
    /\ getRecord(cfgData, "CFG_FTYPE", "FTYPE_CODE", "SSN") = None
    /\ 7 \in FeaturesNamedIn(cfgData, "CFG_EFCALL", "EFEAT_FTYPE_ID")

\* listGenericThresholds met the threshold of the deleted feature and ended in a TypeError
C29_ListWitness ==
    /\ last.cmd = "listGenericThresholds" /\ last.msg = "TypeError"

(***************************************************************************)
(* Sessions of list and get commands between commands that edit.  The      *)
(* attribute rows of the loaded configuration have no ADVANCED and no      *)
(* INTERNAL key; the rows that addAttribute writes have both.              *)
(***************************************************************************)
ListAttributes == Run("listAttributes", "", do_listAttributes(cfgData))

GetAttribute(args) ==
    \E arg \in args : Run("getAttribute", arg, do_getAttribute(cfgData, arg))

ListFeatures == Run("listFeatures", "", do_listFeatures(cfgData))

GetFeature(args) ==
    \E arg \in args : Run("getFeature", arg, do_getFeature(cfgData, arg))

NextReadOnly ==
    \/ ListGenericThresholds
    \/ ListAttributes
    \/ GetAttribute({"SSN_NUMBER", "name", "TEST_NUMBER", "NO_SUCH"})
    \/ ListFeatures
    \/ GetFeature({"SSN", "ssn", "NO_SUCH"})
    \/ AddAttribute({AttributeParm("TEST_NUMBER", FALSE, 0, "IDENTIFIER", "SSN", "ID_NUM")})
    \/ AddGenericThreshold({ThresholdParm("SEARCH", <<"F", "F">>, FALSE, ""),
                            ThresholdParm("SEARCH", BehaviorNONE, FALSE, "")})
    \/ ExportToFile({"cfg.json"})
    \/ Save

SpecReadOnly == Init /\ [][NextReadOnly]_vars

ReadOnlyCommands == {"listGenericThresholds", "listAttributes", "getAttribute", "listFeatures", "getFeature"}

\* C30: a list or get command leaves the document as it was, no record gaining, losing or
\* changing a field, and leaves configUpdated as it was.
C30_ReadOnlyCommandsChangeNothing ==
    [][StepIn(ReadOnlyCommands) => cfgData' = cfgData /\ configUpdated' = configUpdated]_vars

\* the row without the keys that the list and get commands set
Shipped(row) == [f \in DOMAIN row \ {"BEHAVIOR_ORDER", "ADVANCED", "INTERNAL"} |-> row[f]]

\* what holds of C30: a list or get command leaves configUpdated and the files as they
\* were, removes and reorders no row and changes no field that a row had; listFeatures and
\* getFeature leave the whole document as it was
C30_ReadOnlyCommandsKeepFields ==
    [][StepIn(ReadOnlyCommands)
       => /\ configUpdated' = configUpdated /\ files' = files /\ defaultConfig' = defaultConfig
          /\ DOMAIN cfgData' = DOMAIN cfgData
          /\ \A t \in DOMAIN cfgData :
                /\ Len(cfgData'[t]) = Len(cfgData[t])
                /\ \A i \in 1..Len(cfgData[t]) :
                      \A f \in DOMAIN cfgData[t][i] :
                         f \in DOMAIN cfgData'[t][i] /\ cfgData'[t][i][f] = cfgData[t][i][f]
          /\ last'.cmd \in {"listFeatures", "getFeature"} => cfgData' = cfgData]_vars

\* listGenericThresholds was the only command given: every threshold row has the key
\* BEHAVIOR_ORDER, the document is no longer the loaded one, and configUpdated is false
C30_Witness ==
    /\ last.cmd = "listGenericThresholds" /\ nCmds = 1
    /\ ~configUpdated
    /\ cfgData # shippedConfig
    /\ \A i \in 1..Len(cfgData.CFG_GENERIC_THRESHOLD) :
          "BEHAVIOR_ORDER" \in DOMAIN cfgData.CFG_GENERIC_THRESHOLD[i]

\* getAttribute SSN_NUMBER was the only command given and the row of SSN_NUMBER has the keys
\* ADVANCED and INTERNAL
C30_AttributeWitness ==
    /\ last.cmd = "getAttribute" /\ nCmds = 1
    /\ ~configUpdated
    /\ \E i \in 1..Len(cfgData.CFG_ATTR) :
          /\ cfgData.CFG_ATTR[i].ATTR_CODE = "SSN_NUMBER"
          /\ {"ADVANCED", "INTERNAL"} \subseteq DOMAIN cfgData.CFG_ATTR[i]

\* the file that exportToFile wrote after a listGenericThresholds holds the key BEHAVIOR_ORDER
C30_ExportWitness ==
    /\ last.cmd = "exportToFile" /\ "cfg.json" \in DOMAIN files
    /\ load(files["cfg.json"]) # shippedConfig
    /\ ~configUpdated

(***************************************************************************)
(* Every session of the commands above.                                    *)
(***************************************************************************)
Next ==
    \/ NextCascade
    \/ NextAdd
    \/ NextRef
    \/ NextOrder
    \/ NextElem
    \/ NextFrag
    \/ NextRule
    \/ NextThreshold
    \/ NextSet
    \/ NextMultiAdd
    \/ NextFile
    \/ NextScan
    \/ NextBom
    \/ NextCall
    \/ NextResolve
    \/ NextBehavior
    \/ NextUpdated
    \/ NextElemRef
    \/ NextDangling
    \/ NextReadOnly
    \/ DeleteDataSource({"TEST", "SEARCH", "CUSTOMER"})

Spec == Init /\ [][Next]_vars

====
